---------------------------- MODULE Spec2Model ----------------------------
(***************************************************************************)
(* Model of the resumable scraping core of toast-check-extractor           *)
(* (scripts/toast_extract.py): the parser (map_detail_payload and its      *)
(* helpers), the state store (load_state / save_state), the order-details  *)
(* pagination loop (crawl_metadata) and the orchestrator (run_once).       *)
(*                                                                         *)
(* Units.  Money is held in integer cents.  Item quantities are held in    *)
(* units of 1/QtyScale, so that quantity * unit_price has a sub-cent part  *)
(* and Python's round(x, 2) is a real operation.  Python's None is the     *)
(* value None for numbers and the empty string for text.                   *)
(***************************************************************************)
EXTENDS Integers, Sequences, FiniteSets, TLC

VARIABLES
    block,          \* parser: the order block handed to the parser
    fs,             \* the files: path -> content
    state,          \* the in-memory record map of the running process (a dict:
                    \* records in insertion order, unique payment ids)
    pc,             \* where the process is
    save_pc,        \* where save_state is
    save_payload,   \* save_state: the sorted payload being written
    committed,      \* history: the state file as it was when save_state was called
    now,            \* the clock read by utc_now; it ticks when a process starts
    limit,          \* args.limit (0: no limit)
    max_pages,      \* args.max_pages (0: no maximum)
    all_rows,       \* crawl_metadata: the rows accepted so far
    seen_ids,       \* crawl_metadata: the payment ids accepted so far
    page_signatures,\* crawl_metadata: the signatures of the pages taken so far
    page_count,     \* crawl_metadata: the pages read so far
    events,         \* the pagination events the current crawl has logged
    last_total,     \* history: the total of the last pagination summary the
                    \* current crawl has read (None: it has read none)
    accepted_sigs,  \* history: the signatures of the pages rows were accepted from
    interrupted,    \* history: the payment ids accepted by crawls that were killed
    prev,           \* history: the rows and the state file of the run that
                    \* completed just before the current one
    dom,            \* the rendered page the DOM helpers are called on
    dom_result,     \* what the DOM helper returned, and whether page.evaluate
                    \* raised in it
    clicks,         \* history: the pagination widgets whose Next anchor was
                    \* clicked, by position on the page
    site,           \* the report the site serves: its pages, its total, and
                    \* how it answers a click on Next
    site_page,      \* the page of the report the browser shows
    site_loading,   \* polls until the page asked for is rendered (0: none asked)
    waited,         \* wait_for_pagination_change: time since the call, in ticks
    log,            \* history: what the component at work has logged and done,
                    \* in order
    args,           \* the command-line flags the component at work reads
    attempt,        \* the attempt run, or ensure_authenticated, is at
    error,          \* the exception that has come out of the component
    profile,        \* the browser profile directory
    context,        \* the browser context of run_once: none, open or closed
    causes,         \* history: what the site has kept from ensure_authenticated
    tasks,          \* process_details: where each run_one task is, and when
                    \* its sleep ends
    next_start_at,  \* process_details: when the next navigation may start
    throttle_multiplier, \* process_details: the spacing factor, in millionths
    throttle_until, \* process_details: no navigation starts before this time
    throttle_events \* process_details: the throttle errors counted so far

crawl_vars == <<limit, max_pages, all_rows, seen_ids, page_signatures, page_count,
                events, last_total, accepted_sigs, interrupted, prev>>
store_vars == <<block, fs, state, save_pc, save_payload, committed>>
dom_vars == <<dom, dom_result, clicks>>
site_vars == <<site, site_page, site_loading, waited, log>>
run_vars == <<args, attempt, error, profile, context, causes>>
thr_vars == <<tasks, next_start_at, throttle_multiplier, throttle_until, throttle_events>>
ext_vars == <<dom_vars, site_vars, run_vars, thr_vars>>
\* What a component leaves alone.
not_dom_vars == <<store_vars, now, crawl_vars, site_vars, run_vars, thr_vars>>
not_run_vars == <<store_vars, now, crawl_vars, dom_vars, thr_vars, site, site_page,
                  site_loading, waited>>
vars == <<block, fs, state, pc, save_pc, save_payload, committed, now,
          limit, max_pages, all_rows, seen_ids, page_signatures, page_count,
          events, last_total, accepted_sigs, interrupted, prev, ext_vars>>

-----------------------------------------------------------------------------
(* Bounds of the model *)

MaxItems == 1       \* item rows per items table in the enumerated payloads
QtyScale == 5       \* quantities are multiples of 1/QtyScale
MaxTables == 3      \* tables per payload in the enumerated table sequences

-----------------------------------------------------------------------------
(* Python values *)

None == -1000000

\* A DOM text cell: blank, text without digits, or text that holds a number.
Blank == [k |-> "blank", v |-> 0]
Junk == [k |-> "junk", v |-> 0]
Num(c) == [k |-> "num", v |-> c]

\* parse_decimal: None for empty text or text without a number, else the number.
parse_decimal(cell) == IF cell.k = "num" THEN cell.v ELSE None

\* parse_int: None for empty text or text without digits, else the integer.
parse_int(cell) == IF cell.k = "num" THEN cell.v ELSE None

\* Python truthiness of a float-or-None, as used by "a or b".
Truthy(x) == x # None /\ x # 0
PyOr(a, b) == IF Truthy(a) THEN a ELSE b
OrZero(x) == IF Truthy(x) THEN x ELSE 0

Abs(x) == IF x < 0 THEN 0 - x ELSE x

\* round(n / d, 0) for d > 0, nearest integer (Python's round(x, 2) on a value
\* held as n/d cents).
RoundDiv(n, d) == (2 * n + d) \div (2 * d)

RECURSIVE SumSeq(_)
SumSeq(s) == IF s = <<>> THEN 0 ELSE Head(s) + SumSeq(Tail(s))

\* The one element of a one-element set: Only({e(x) : x \in {v}}) is e with x
\* bound to the value v, which is worked out once.
Only(S) == CHOOSE x \in S : TRUE

\* [x for x in s if x is not None]
NotNone(s) == SelectSeq(s, LAMBDA x : x # None)

MapSeq(s, F(_)) == [i \in 1..Len(s) |-> F(s[i])]

-----------------------------------------------------------------------------
(* Label/value pairs and metadata: ordered key -> text mappings.  A key      *)
(* matches a candidate when the candidate is a substring of the lowercased   *)
(* key.                                                                      *)

KeyContains(key, cand) ==
    CASE key = "Subtotal" -> cand \in {"subtotal", "total"}
      [] key = "Total" -> cand \in {"total"}
      [] key = "Tax" -> cand \in {"tax"}
      [] key = "Tip" -> cand \in {"tip"}
      [] key = "Gratuity" -> cand \in {"gratuity"}
      [] key = "Discount" -> cand \in {"discount"}
      [] key = "Server" -> cand \in {"server"}
      [] key = "Check #" -> cand \in {"check #"}
      [] key = "Order #" -> cand \in {"order #"}
      [] key = "Opened" -> cand \in {"opened"}
      [] key = "Order Date" -> cand \in {"order date"}
      [] key = "Card Type" -> cand \in {"card type", "card", "type"}
      [] key = "Card Last 4" -> cand \in {"card", "last 4"}
      [] key = "Payment Type" -> cand \in {"payment", "type"}
      [] key = "payment_id" -> cand \in {"payment"}
      [] OTHER -> FALSE

\* Truthiness of a text cell (a non-empty string).
CellTruthy(cell) == cell.k # "blank"

\* pick_value: the first pair, in insertion order, whose key contains one of
\* the candidates and whose value is non-empty.
RECURSIVE pick_value(_, _)
pick_value(pairs, candidates) ==
    IF pairs = <<>> THEN Blank
    ELSE IF (\E c \in candidates : KeyContains(Head(pairs).key, c))
            /\ CellTruthy(Head(pairs).value)
         THEN Head(pairs).value
         ELSE pick_value(Tail(pairs), candidates)

\* pick_metadata_value: candidates in priority order, keys in insertion order.
RECURSIVE pick_metadata_value(_, _)
pick_metadata_value(metadata, candidates) ==
    IF candidates = <<>> THEN Blank
    ELSE LET hit == pick_value(metadata, {Head(candidates)})
         IN  IF CellTruthy(hit) THEN hit
             ELSE pick_metadata_value(metadata, Tail(candidates))

-----------------------------------------------------------------------------
(* Table extraction.  A table of the payload is given by its normalized     *)
(* headers and by its rows; a row gives the cells that pick_row_value       *)
(* resolves for each column family.                                         *)

Tolerance == 5      \* 0.05 dollars, in cents

\* The words of the shape tests that a normalized header contains.
HeaderWords(header) ==
    CASE header = "item" -> {"item"}
      [] header = "item name" -> {"item", "name"}
      [] header = "qty" -> {"qty"}
      [] header = "name" -> {"name"}
      [] header = "amount" -> {"amount"}
      [] header = "applied date" -> {"applied", "date"}
      [] header = "date" -> {"date"}
      [] header = "payment type" -> {"payment"}
      [] header = "total" -> {"total"}
      [] OTHER -> {}

HeaderHas(headers, words) == \E h \in headers : HeaderWords(h) \cap words # {}

\* has_item and has_qty
items_shape(table) ==
    HeaderHas(table.headers, {"item", "menu"}) /\ HeaderHas(table.headers, {"qty", "quantity"})

\* has_name and has_amount and has_applied
discounts_shape(table) ==
    /\ HeaderHas(table.headers, {"name"})
    /\ HeaderHas(table.headers, {"amount"})
    /\ \E h \in table.headers : {"applied", "date"} \subseteq HeaderWords(h)

\* has_payment and has_amount
payments_shape(table) ==
    /\ HeaderHas(table.headers, {"payment", "method", "card"})
    /\ HeaderHas(table.headers, {"amount", "total"})

\* One item of extract_items_from_tables.
item_from_row(row) ==
    LET quantity == parse_decimal(row.qty)
        unit_price == parse_decimal(row.price)
        d0 == parse_decimal(row.discount)
        line_discount == IF d0 = None THEN 0 ELSE d0
        n0 == parse_decimal(row.net)
        line_total_net ==
            IF n0 = None /\ quantity # None /\ unit_price # None
            THEN RoundDiv(quantity * unit_price - OrZero(line_discount) * QtyScale, QtyScale)
            ELSE n0
        line_tax == parse_decimal(row.tax)
        t0 == parse_decimal(row.total)
        t1 == IF t0 = None /\ line_total_net # None /\ line_tax # None
              THEN line_total_net + line_tax ELSE t0
        line_total_with_tax == IF t1 = None THEN line_total_net ELSE t1
    IN  [item_name |-> row.item_name,
         quantity |-> quantity,
         unit_price |-> unit_price,
         discount |-> line_discount,
         line_total |-> line_total_net,
         line_tax |-> line_tax,
         line_total_with_tax |-> line_total_with_tax]

\* Mutant: the first table of the shape is returned, rows or not.
rows_found_always(filtered) == TRUE

\* if filtered: return filtered
rows_found(filtered) == filtered # <<>>

\* The first table of items shape whose rows leave a named item wins.
RECURSIVE extract_items_from_tables(_)
extract_items_from_tables(tables) ==
    IF tables = <<>> THEN <<>>
    ELSE LET table == Head(tables)
             items == MapSeq(table.rows, item_from_row)
             filtered == SelectSeq(items, LAMBDA it : it.item_name # "")
         IN  IF items_shape(table) /\ rows_found(filtered) THEN filtered
             ELSE extract_items_from_tables(Tail(tables))

\* One discount of extract_discounts_from_tables: a missing amount is 0.0.
discount_from_row(row) ==
    [name |-> row.name,
     amount |-> IF parse_decimal(row.amount) = None THEN 0 ELSE parse_decimal(row.amount)]

\* The first table of discounts shape that has a row wins: the amount of a
\* row is never None, so the filter keeps every row.
RECURSIVE extract_discounts_from_tables(_)
extract_discounts_from_tables(tables) ==
    IF tables = <<>> THEN <<>>
    ELSE LET table == Head(tables)
             discounts == MapSeq(table.rows, discount_from_row)
             filtered == SelectSeq(discounts,
                            LAMBDA row : row.name # "" \/ row.amount # None)
         IN  IF discounts_shape(table) /\ rows_found(filtered) THEN filtered
             ELSE extract_discounts_from_tables(Tail(tables))

\* normalize_payment_type: keyword classification of the cleaned raw text.
normalize_payment_type(raw) ==
    CASE raw = "" -> ""
      [] raw = "GIFT CARD 1234" -> "Gift Card"
      [] raw = "Visa Credit" -> "credit"
      [] raw = "Debit" -> "debit"
      [] raw = "Cash" -> "cash"
      [] OTHER -> raw

\* re.search of the two last-4 patterns in the normalized payment type
last4_in_type(payment_type) ==
    CASE payment_type = "Amex ending in 4321" -> Num(4321)
      [] OTHER -> Blank

\* re.search of "(?:credit|debit)\s*:\s*([A-Za-z]+)" in the normalized payment
\* type: a text with credit or debit in it is normalized to that one word.
card_type_in_type(payment_type) == Blank

\* Mutant: no payment counts as a gift card.
is_gift_card_never(payment_type) == FALSE

\* payment_type and payment_type.lower() == "gift card"
is_gift_card(payment_type) == payment_type = "Gift Card"

payment_from_row(row) ==
    LET payment_type == normalize_payment_type(row.payment_type)
        last_cell == IF ~CellTruthy(row.card_last_4) /\ payment_type # ""
                     THEN last4_in_type(payment_type) ELSE row.card_last_4
        type_cell == IF ~CellTruthy(row.card_type) /\ payment_type # ""
                     THEN card_type_in_type(payment_type) ELSE row.card_type
        gift == is_gift_card(payment_type)
    IN  [payment_type |-> payment_type,
         payment_date |-> row.payment_date,
         amount |-> parse_decimal(row.amount),
         tip |-> parse_decimal(row.tip),
         gratuity |-> parse_decimal(row.gratuity),
         total |-> parse_decimal(row.total),
         card_type |-> IF gift THEN Blank ELSE type_cell,
         card_last_4 |-> IF gift THEN Blank ELSE last_cell]

RECURSIVE extract_payments_from_tables(_)
extract_payments_from_tables(tables) ==
    IF tables = <<>> THEN <<>>
    ELSE LET table == Head(tables)
             payments == MapSeq(table.rows, payment_from_row)
             filtered == SelectSeq(payments,
                            LAMBDA p : p.payment_type # "" \/ p.amount # None)
         IN  IF payments_shape(table) /\ rows_found(filtered) THEN filtered
             ELSE extract_payments_from_tables(Tail(tables))

-----------------------------------------------------------------------------
(* validate_detail_payload.  The comparisons are made on binary floats:    *)
(* when the decimal difference is exactly 0.05, abs(expected - actual) >    *)
(* 0.05 holds for some values (128.88 against 128.93) and not for others    *)
(* (128.88 against 128.83).  fp_over says which, for the values of one      *)
(* payload.                                                                 *)

ExceedsTolerance(diff, fp_over) ==
    diff > Tolerance \/ (diff = Tolerance /\ fp_over)

\* Mutant: the reconciliation tolerance is half a dollar.
total_errors_loose(mapped, fp_over) ==
    LET expected == mapped.subtotal + mapped.tax + mapped.tip + mapped.gratuity
                    - OrZero(mapped.discount)
    IN  IF mapped.subtotal # None /\ mapped.tax # None /\ mapped.tip # None
           /\ mapped.gratuity # None /\ mapped.total # None
           /\ Abs(expected - mapped.total) > 50
        THEN << [kind |-> "total_mismatch", idx |-> 0,
                 expected |-> expected, actual |-> mapped.total] >>
        ELSE <<>>

\* The total_mismatch entry, or no entry.
total_errors(mapped, fp_over) ==
    LET subtotal == mapped.subtotal
        tax == mapped.tax
        tip == mapped.tip
        gratuity == mapped.gratuity
        discount == OrZero(mapped.discount)
        total == mapped.total
        expected == subtotal + tax + tip + gratuity - discount
    IN  IF subtotal # None /\ tax # None /\ tip # None /\ gratuity # None
           /\ total # None /\ ExceedsTolerance(Abs(expected - total), fp_over)
        THEN << [kind |-> "total_mismatch", idx |-> 0,
                 expected |-> expected, actual |-> total] >>
        ELSE <<>>

\* Mutant: the line tolerance is half a dollar.
line_error_loose(item, idx, fp_over) ==
    LET expected_line ==
            RoundDiv(item.quantity * item.unit_price - OrZero(item.discount) * QtyScale,
                     QtyScale)
    IN  IF item.quantity = None \/ item.unit_price = None \/ item.line_total = None
        THEN <<>>
        ELSE IF Abs(expected_line - item.line_total) > 50
             THEN << [kind |-> "line_total_mismatch", idx |-> idx,
                      expected |-> expected_line, actual |-> item.line_total] >>
             ELSE <<>>

\* The line_total_mismatch[idx] entry of one item, or no entry.
line_error(item, idx, fp_over) ==
    LET quantity == item.quantity
        unit_price == item.unit_price
        line_total == item.line_total
        line_discount == OrZero(item.discount)
        expected_line ==
            RoundDiv(quantity * unit_price - line_discount * QtyScale, QtyScale)
    IN  IF quantity = None \/ unit_price = None \/ line_total = None THEN <<>>
        ELSE IF ExceedsTolerance(Abs(expected_line - line_total), fp_over)
             THEN << [kind |-> "line_total_mismatch", idx |-> idx,
                      expected |-> expected_line, actual |-> line_total] >>
             ELSE <<>>

RECURSIVE line_errors(_, _, _)
line_errors(items, idx, fp_over) ==
    IF idx >= Len(items) THEN <<>>
    ELSE line_error(items[idx + 1], idx, fp_over) \o line_errors(items, idx + 1, fp_over)

validate_detail_payload(mapped, fp_over) ==
    total_errors(mapped, fp_over) \o line_errors(mapped.items, 0, fp_over)

-----------------------------------------------------------------------------
(* map_detail_payload.  payload.body holds, per probe, what regex_pick finds *)
(* in bodyText.                                                              *)

\* sanitize_server_value: a station/device marker or blank text is dropped.
sanitize_server_value(cell) == IF cell.k = "name" THEN cell ELSE Blank

\* a or b, on text cells.
CellOr(a, b) == IF CellTruthy(a) THEN a ELSE b

\* round(sum(v for v in values if v is not None), 2), or None when none is given.
sum_present(values) ==
    IF NotNone(values) = <<>> THEN None ELSE SumSeq(NotNone(values))

fuse_subtotal(p, metadata) ==
    LET s0 == parse_decimal(p.summary.subtotal)
        s1 == IF s0 = None
              THEN PyOr(parse_decimal(pick_value(p.pairs, {"subtotal"})),
                        parse_decimal(p.body.subtotal))
              ELSE s0
    IN  IF s1 = None
        THEN parse_decimal(pick_metadata_value(metadata,
                 <<"subtotal", "amount", "net sales", "pre-tax">>))
        ELSE s1

fuse_tip(p, metadata, payments) ==
    LET t0 == parse_decimal(p.summary.tip)
        t1 == IF t0 = None /\ payments # <<>>
              THEN sum_present(MapSeq(payments, LAMBDA pay : pay.tip)) ELSE t0
        t2 == IF t1 = None
              THEN PyOr(parse_decimal(pick_value(p.pairs, {"tip"})),
                        parse_decimal(p.body.tip))
              ELSE t1
    IN  IF t2 = None THEN parse_decimal(pick_metadata_value(metadata, <<"tip">>))
        ELSE t2

fuse_gratuity(p, metadata, payments) ==
    LET g0 == parse_decimal(p.summary.gratuity)
        g1 == IF g0 = None /\ payments # <<>>
              THEN sum_present(MapSeq(payments, LAMBDA pay : pay.gratuity)) ELSE g0
        g2 == IF g1 = None
              THEN PyOr(parse_decimal(pick_value(p.pairs, {"gratuity"})),
                        parse_decimal(p.body.gratuity))
              ELSE g1
    IN  IF g2 = None
        THEN parse_decimal(pick_metadata_value(metadata, <<"gratuity", "service charge">>))
        ELSE g2

fuse_total(p, metadata, payments, tip, gratuity) ==
    LET t0 == parse_decimal(p.summary.total)
        t1 == IF t0 = None
              THEN PyOr(parse_decimal(pick_value(p.pairs, {"total"})),
                        parse_decimal(p.body.total))
              ELSE t0
        t2 == IF t1 = None
              THEN parse_decimal(pick_metadata_value(metadata, <<"total">>))
              ELSE t1
        t3 == IF t2 = None /\ payments # <<>>
              THEN sum_present(MapSeq(payments, LAMBDA pay : pay.total)) ELSE t2
        amounts == NotNone(MapSeq(payments, LAMBDA pay : pay.amount))
    IN  IF t3 = None /\ payments # <<>> /\ amounts # <<>>
        THEN SumSeq(amounts) + OrZero(tip) + OrZero(gratuity)
        ELSE t3

fuse_discount(p, metadata) ==
    LET d0 == parse_decimal(p.summary.discount)
        d1 == IF d0 = None
              THEN parse_decimal(pick_value(p.pairs, {"discount"})) ELSE d0
        d2 == IF d1 = None
              THEN parse_decimal(pick_metadata_value(metadata, <<"discount">>))
              ELSE d1
    IN  IF d2 = None THEN 0 ELSE d2

fuse_tax(p, metadata, items, subtotal, total, tip, gratuity) ==
    LET x0 == parse_decimal(p.summary.tax)
        x1 == IF x0 = None
              THEN PyOr(parse_decimal(pick_value(p.pairs, {"tax"})),
                        parse_decimal(p.body.tax))
              ELSE x0
        x2 == IF x1 = None
              THEN parse_decimal(pick_metadata_value(metadata, <<"tax">>))
              ELSE x1
        computed == total - subtotal - OrZero(tip) - OrZero(gratuity)
        x3 == IF x2 = None /\ subtotal # None /\ total # None /\ computed >= 0
              THEN computed ELSE x2
        net_sum == SumSeq(MapSeq(items, LAMBDA it : OrZero(it.line_total)))
        gross_sum == SumSeq(MapSeq(items,
                        LAMBDA it : OrZero(PyOr(it.line_total_with_tax, it.line_total))))
        x4 == IF x3 = None /\ items # <<>> /\ gross_sum - net_sum >= 0
              THEN gross_sum - net_sum ELSE x3
    IN  IF x4 # None /\ 2 * Abs(x4) < 1 THEN 0 ELSE x4

\* parse_int(a) or b, then the metadata fallback when still None.
fuse_check_number(p, metadata) ==
    LET c0 == PyOr(parse_int(pick_value(p.pairs, {"check #", "check number"})),
                   parse_int(p.body.check_number))
    IN  IF c0 = None
        THEN parse_int(pick_metadata_value(metadata, <<"order #", "check #">>))
        ELSE c0

fuse_time_opened(p, metadata) ==
    LET o0 == CellOr(pick_value(p.pairs, {"opened", "time opened", "open time"}),
                     CellOr(p.summaryDetails.time_opened, p.body.time_opened))
    IN  IF ~CellTruthy(o0)
        THEN pick_metadata_value(metadata, <<"order date", "opened">>)
        ELSE o0

fuse_server(p, metadata) ==
    LET s0 == sanitize_server_value(
                  CellOr(pick_value(p.pairs, {"server", "employee"}),
                         CellOr(p.summaryDetails.server, p.body.server)))
        s1 == IF ~CellTruthy(s0)
              THEN sanitize_server_value(
                       pick_metadata_value(metadata, <<"server", "opened by">>))
              ELSE s0
    IN  IF ~CellTruthy(s1) THEN sanitize_server_value(p.body.created_by)
        ELSE s1

\* Mutant: completeness without the identity requirement.
is_complete_no_identity(mapped) ==
    /\ mapped.items # <<>>
    /\ (mapped.payments # <<>> \/ (mapped.total # None /\ 2 * Abs(mapped.total) < 1))
    /\ mapped.validation_errors = <<>>

\* The completeness rule at the end of map_detail_payload.
is_complete(mapped) ==
    LET has_financial ==
            mapped.total # None \/ \E i \in 1..Len(mapped.payments) :
                                       mapped.payments[i].amount # None
        has_identity ==
            \/ mapped.check_number # None
            \/ CellTruthy(mapped.time_opened)
            \/ CellTruthy(mapped.server)
        has_payments_or_zero_total ==
            mapped.payments # <<>> \/ (mapped.total # None /\ 2 * Abs(mapped.total) < 1)
    IN  /\ mapped.items # <<>>
        /\ has_payments_or_zero_total
        /\ has_financial
        /\ has_identity
        /\ mapped.validation_errors = <<>>

\* first_type not in {"gift card"}, on the stripped and lowercased type
allow_card_fill(first) == first.payment_type # "Gift Card"

\* map_detail_payload, the card fields: the label/value pairs, then the first
\* payment, then the metadata; what is found fills the first payment where
\* it has none.
fill_first_card(payments, pairs, metadata) ==
    IF payments = <<>> THEN payments
    ELSE LET first == payments[1]
             card_type == CellOr(CellOr(pick_value(pairs, {"card type", "card"}),
                                        first.card_type),
                                 pick_metadata_value(metadata, <<"card type", "type", "payment">>))
             card_last_4 == CellOr(CellOr(pick_value(pairs, {"last 4", "last4", "last four"}),
                                          first.card_last_4),
                                   pick_metadata_value(metadata, <<"last 4", "last4">>))
         IN  [payments EXCEPT ![1] =
                 [first EXCEPT
                    !.card_type = IF allow_card_fill(first) /\ ~CellTruthy(@) THEN card_type ELSE @,
                    !.card_last_4 = IF allow_card_fill(first) /\ ~CellTruthy(@)
                                    THEN card_last_4 ELSE @]]

map_detail_payload(p, metadata) ==
    LET payments == fill_first_card(extract_payments_from_tables(p.tables), p.pairs, metadata)
        items == extract_items_from_tables(p.tables)
        discounts_table == extract_discounts_from_tables(p.tables)
        subtotal == fuse_subtotal(p, metadata)
        tip == fuse_tip(p, metadata, payments)
        gratuity == fuse_gratuity(p, metadata, payments)
        total == fuse_total(p, metadata, payments, tip, gratuity)
        discount == fuse_discount(p, metadata)
        tax == fuse_tax(p, metadata, items, subtotal, total, tip, gratuity)
        mapped0 == [check_number |-> fuse_check_number(p, metadata),
                    time_opened |-> fuse_time_opened(p, metadata),
                    server |-> fuse_server(p, metadata),
                    discount |-> discount,
                    subtotal |-> subtotal,
                    tax |-> tax,
                    tip |-> tip,
                    gratuity |-> gratuity,
                    total |-> total,
                    items |-> items,
                    discounts |-> discounts_table,
                    payments |-> payments]
        mapped1 == [f \in DOMAIN mapped0 \cup {"validation_errors"} |->
                       IF f = "validation_errors" THEN validate_detail_payload(mapped0, p.fp_over)
                       ELSE mapped0[f]]
    IN  [f \in DOMAIN mapped1 \cup {"complete"} |->
            IF f = "complete" THEN is_complete(mapped1) ELSE mapped1[f]]

-----------------------------------------------------------------------------
(* How crawl_metadata turns one extracted order block into a row.           *)

\* A dict as the sequence of its entries, in insertion order; a value that
\* is itself a dict.
Dict(entries) == [k |-> "dict", v |-> entries]
DictKeys(d) == {d[i].key : i \in 1..Len(d)}
DictGet(d, key) == d[CHOOSE i \in 1..Len(d) : d[i].key = key].value
dict_set(d, key, value) ==
    IF key \in DictKeys(d)
    THEN [i \in 1..Len(d) |-> IF d[i].key = key THEN [key |-> key, value |-> value] ELSE d[i]]
    ELSE Append(d, [key |-> key, value |-> value])

\* str(key).strip() and its lower()
strip_key(key) ==
    CASE key = " Server " -> "Server"
      [] key = "  " -> ""
      [] OTHER -> key
lower_key(key) ==
    CASE key = "Receipt" -> "receipt"
      [] key = "Columns" -> "columns"
      [] OTHER -> key

\* Mutant: a "columns" sub-mapping is not flattened.
flatten_columns_never(metadata) == metadata

\* Older state files stored the table headers under metadata["columns"]:
\* the sub-mapping replaces the metadata, with the payment_id kept.
flatten_columns(metadata) ==
    IF "columns" \in DictKeys(metadata) /\ DictGet(metadata, "columns").k = "dict"
    THEN LET flattened == DictGet(metadata, "columns").v
         IN  IF "payment_id" \in DictKeys(metadata)
                /\ CellTruthy(DictGet(metadata, "payment_id"))
             THEN dict_set(flattened, "payment_id", DictGet(metadata, "payment_id"))
             ELSE flattened
    ELSE metadata

\* The loop of normalize_metadata_fields: blank keys and the legacy
\* bookkeeping keys are dropped, the others are stored under the stripped key.
RECURSIVE clean_metadata(_, _)
clean_metadata(cleaned, entries) ==
    IF entries = <<>> THEN cleaned
    ELSE LET key_text == strip_key(Head(entries).key)
         IN  clean_metadata(
                 IF key_text = ""
                    \/ lower_key(key_text) \in {"receipt", "detail_url", "columns", "raw_cells"}
                 THEN cleaned
                 ELSE dict_set(cleaned, key_text, Head(entries).value),
                 Tail(entries))

normalize_metadata_fields(metadata) == clean_metadata(<<>>, flatten_columns(metadata))

\* "; ".join(validation_errors), or None (here the empty sequence).
join_errors(validation_errors) == validation_errors

\* The row appended to all_rows for a block with a new payment id.
row_of_block(payment_id, b) ==
    Only({ Only({ [payment_id |-> payment_id,
                   metadata |-> metadata,
                   data |-> detail,
                   complete |-> detail.complete,
                   last_error |-> join_errors(detail.validation_errors),
                   parsed_url |-> b.parsed_url] :
                  detail \in {map_detail_payload(b.payload, metadata)} }) :
           metadata \in {normalize_metadata_fields(b.metadata)} })

-----------------------------------------------------------------------------
(* Enumerated order blocks for the parser specification.                    *)

NameCell == [k |-> "name", v |-> 1]
MarkerCell == [k |-> "marker", v |-> 0]

BlankSummary ==
    [subtotal |-> Blank, tax |-> Blank, tip |-> Blank, gratuity |-> Blank,
     total |-> Blank, discount |-> Blank]

BlankBody ==
    [subtotal |-> Blank, tax |-> Blank, tip |-> Blank, gratuity |-> Blank,
     total |-> Blank, check_number |-> Blank, time_opened |-> Blank,
     server |-> Blank, created_by |-> Blank]

\* The S4 check: subtotal 100.00, tax 8.88, tip 20.00, gratuity 0, total 128.88.
S4Summary ==
    [subtotal |-> Num(10000), tax |-> Num(888), tip |-> Num(2000),
     gratuity |-> Num(0), total |-> Num(12888), discount |-> Num(0)]

SummaryInputs ==
    [subtotal : {Blank, Num(10000)},
     tax : {Blank, Num(0), Num(888)},
     tip : {Blank, Num(2000)},
     gratuity : {Blank, Num(0)},
     total : {Blank, Num(0), Num(12888), Num(12893), Num(12894), Num(13000)},
     discount : {Blank, Num(6)}]

\* One whole unit of quantity and one fractional quantity.
ItemRowInputs ==
    [item_name : {"", "Burger"},
     qty : {Blank, Num(QtyScale), Num(1)},
     price : {Blank, Num(1667)},
     discount : {Blank, Num(5)},
     net : {Blank, Num(1667), Num(333), Num(328), Num(339)},
     tax : {Blank},
     total : {Blank}]

GoodItemRow ==
    [item_name |-> "Burger", qty |-> Num(QtyScale), price |-> Num(10000),
     discount |-> Blank, net |-> Num(10000), tax |-> Num(888), total |-> Blank]

SeqsUpTo(S, n) == UNION {[1..k -> S] : k \in 0..n}

PaymentRowInputs ==
    [payment_type : {"", "Visa Credit", "GIFT CARD 1234"},
     payment_date : {Blank},
     amount : {Blank, Num(10888)},
     tip : {Blank, Num(2000)},
     gratuity : {Blank},
     total : {Blank},
     card_type : {Blank},
     card_last_4 : {Blank}]

GoodPaymentRow ==
    [payment_type |-> "Visa Credit", payment_date |-> Blank, amount |-> Num(10888),
     tip |-> Num(2000), gratuity |-> Blank, total |-> Blank,
     card_type |-> Blank, card_last_4 |-> Blank]

ItemsTable(rows) == [headers |-> {"item", "qty", "price", "net", "tax"}, rows |-> rows]
PaymentsTable(rows) == [headers |-> {"payment type", "amount", "tip"}, rows |-> rows]
DiscountsTable(rows) == [headers |-> {"name", "amount", "applied date"}, rows |-> rows]
OtherTableOf(rows) == [headers |-> {"server", "hours", "date"}, rows |-> rows]
OtherTable == OtherTableOf(<<>>)

mk_block(summary, pairs, tables, server, body, order_number, fp_over) ==
    [payment_id |-> 1,
     metadata |-> << [key |-> "payment_id", value |-> Num(1)],
                     [key |-> "Order #", value |-> order_number],
                     [key |-> "raw_cells", value |-> Junk] >>,
     payload |-> [pairs |-> pairs, tables |-> tables, summary |-> summary,
                  summaryDetails |-> [time_opened |-> Blank, server |-> server],
                  body |-> body, fp_over |-> fp_over],
     parsed_url |-> "check"]

\* Family 1: the summary spans vary; items, payments and identity on or off.
MoneyBlocks ==
    { mk_block(s, <<>>, t, srv, BlankBody, Blank, fp) :
        s \in SummaryInputs, fp \in BOOLEAN,
        t \in { <<>>,
                <<ItemsTable(<<GoodItemRow>>)>>,
                <<OtherTable, ItemsTable(<<GoodItemRow>>), PaymentsTable(<<GoodPaymentRow>>)>> },
        srv \in {Blank, NameCell, MarkerCell} }

\* Family 2: the item rows vary under a reconciling or an empty summary.
ItemBlocks ==
    { mk_block(s, <<>>, <<ItemsTable(rows), PaymentsTable(<<GoodPaymentRow>>)>>,
               NameCell, BlankBody, Blank, fp) :
        s \in {S4Summary, BlankSummary}, fp \in BOOLEAN,
        rows \in SeqsUpTo(ItemRowInputs, MaxItems) }

\* Family 3: money comes from the lower-precedence sources (label/value pairs,
\* body-text probes, payments) and identity from the metadata.
PairInputs ==
    { <<>>,
      << [key |-> "Subtotal", value |-> Num(10000)], [key |-> "Total", value |-> Num(12888)] >>,
      << [key |-> "Total", value |-> Num(13000)], [key |-> "Subtotal", value |-> Num(10000)],
         [key |-> "Tax", value |-> Num(888)] >>,
      << [key |-> "Server", value |-> NameCell], [key |-> "Tax", value |-> Num(0)] >>,
      << [key |-> "Tip", value |-> Num(500)] >> }

BodyInputs ==
    { BlankBody,
      [BlankBody EXCEPT !.subtotal = Num(10000), !.tax = Num(888), !.total = Num(13000)],
      [BlankBody EXCEPT !.total = Num(12888), !.check_number = Num(7)] }

SourceBlocks ==
    { mk_block(BlankSummary, prs, <<ItemsTable(<<GoodItemRow>>), PaymentsTable(<<pay>>)>>,
               Blank, body, ord, FALSE) :
        prs \in PairInputs, body \in BodyInputs, pay \in PaymentRowInputs,
        ord \in {Blank, Num(7)} }

\* Family 4: card values in the payment rows, the payment-type text, the
\* label/value pairs and the metadata; up to two payments.
VisaCell == [k |-> "name", v |-> 2]

CardRowInputs ==
    { [GoodPaymentRow EXCEPT !.payment_type = t, !.card_type = ct, !.card_last_4 = l4] :
        t \in {"GIFT CARD 1234", "Visa Credit", "Amex ending in 4321"},
        ct \in {Blank, VisaCell}, l4 \in {Blank, Num(1234)} }

CardPairInputs ==
    { <<>>,
      << [key |-> "Card Type", value |-> VisaCell], [key |-> "Card Last 4", value |-> Num(1234)] >>,
      << [key |-> "Card Last 4", value |-> Num(1234)] >> }

CardMetadataInputs ==
    { <<>>,
      << [key |-> "Payment Type", value |-> VisaCell], [key |-> "Card Last 4", value |-> Num(1234)] >> }

CardBlocks ==
    { [mk_block(S4Summary, prs, <<ItemsTable(<<GoodItemRow>>), PaymentsTable(rows)>>,
                NameCell, BlankBody, Num(7), FALSE) EXCEPT !.metadata = @ \o md] :
        prs \in CardPairInputs, md \in CardMetadataInputs,
        rows \in SeqsUpTo(CardRowInputs, 2) \ {<<>>} }

\* Family 5: up to MaxTables tables in document order: tables of each shape
\* with usable rows, with no row or with no usable row, and tables of no
\* shape.
FriesItemRow == [GoodItemRow EXCEPT !.item_name = "Fries", !.price = Num(500), !.net = Num(500)]
UnnamedItemRow == [GoodItemRow EXCEPT !.item_name = ""]
CashPaymentRow == [GoodPaymentRow EXCEPT !.payment_type = "Cash"]
EmptyPaymentRow == [GoodPaymentRow EXCEPT !.payment_type = "", !.amount = Blank]
PromoRow == [name |-> "Promo", amount |-> Num(6)]
CompRow == [name |-> "Comp", amount |-> Blank]

TableInputs ==
    { ItemsTable(<<GoodItemRow>>), ItemsTable(<<FriesItemRow>>), ItemsTable(<<>>),
      ItemsTable(<<UnnamedItemRow>>),
      PaymentsTable(<<GoodPaymentRow>>), PaymentsTable(<<CashPaymentRow>>),
      PaymentsTable(<<EmptyPaymentRow>>),
      DiscountsTable(<<PromoRow>>), DiscountsTable(<<CompRow>>), DiscountsTable(<<>>),
      OtherTableOf(<<GoodItemRow>>), OtherTableOf(<<GoodPaymentRow>>), OtherTableOf(<<PromoRow>>) }

TableBlocks ==
    { mk_block(S4Summary, <<>>, t, NameCell, BlankBody, Num(7), FALSE) :
        t \in SeqsUpTo(TableInputs, MaxTables) }

BlockInputs == MoneyBlocks \cup ItemBlocks \cup SourceBlocks \cup CardBlocks \cup TableBlocks

-----------------------------------------------------------------------------
(* The state store: the record map, load_state, merge_metadata, save_state.  *)

MaxId == 2          \* payment ids are 1..MaxId, ordered as the id strings are

Ids == 1..MaxId

NoData == [none |-> TRUE]
HasData(r) == r.data # NoData

\* dict operations on a sequence of records with unique payment ids.
Keys(st) == {st[i].payment_id : i \in 1..Len(st)}
Get(st, pid) == st[CHOOSE i \in 1..Len(st) : st[i].payment_id = pid]
Put(st, pid, rec) ==
    IF pid \in Keys(st)
    THEN [i \in 1..Len(st) |-> IF st[i].payment_id = pid THEN rec ELSE st[i]]
    ELSE Append(st, rec)

\* The ORDER_DETAILS_URL constant and the per-check URL of an order block.
ORDER_DETAILS_URL == "order-details"

\* Mutant: the record's last_error accumulates over merges.
merged_record_accumulate(existing, has_existing, row, t) ==
    [payment_id |-> row.payment_id,
     metadata |-> normalize_metadata_fields(row.metadata),
     complete |-> row.complete,
     attempts |-> (IF has_existing THEN existing.attempts ELSE 0) + 1,
     last_error |-> (IF has_existing THEN existing.last_error ELSE <<>>) \o row.last_error,
     extracted_at |-> t,
     data |-> row.data,
     parsed_url |-> IF row.parsed_url = "" THEN ORDER_DETAILS_URL ELSE row.parsed_url]

\* merge_metadata, new flow: the record stored for a row that carries parsed data.
merged_record(existing, has_existing, row, t) ==
    LET detail == row.data
        validation_errors == detail.validation_errors
        last_error == IF row.last_error = <<>> /\ validation_errors # <<>>
                      THEN join_errors(validation_errors) ELSE row.last_error
    IN  [payment_id |-> row.payment_id,
         metadata |-> normalize_metadata_fields(row.metadata),
         complete |-> row.complete,
         attempts |-> (IF has_existing THEN existing.attempts ELSE 0) + 1,
         last_error |-> last_error,
         extracted_at |-> t,
         data |-> detail,
         parsed_url |-> IF row.parsed_url = "" THEN ORDER_DETAILS_URL ELSE row.parsed_url]

\* merge_metadata, legacy flow: a row without parsed data.  Such a row is a
\* flat mapping; its entries are what the row holds in its metadata field.
legacy_record(st, row) ==
    IF row.payment_id \notin Keys(st)
    THEN [payment_id |-> row.payment_id,
          metadata |-> normalize_metadata_fields(row.metadata),
          complete |-> FALSE,
          attempts |-> 0,
          last_error |-> <<>>,
          extracted_at |-> 0,
          data |-> NoData,
          parsed_url |-> ORDER_DETAILS_URL]
    ELSE [Get(st, row.payment_id) EXCEPT
              !.metadata = normalize_metadata_fields(row.metadata),
              !.parsed_url = ORDER_DETAILS_URL]

merge_row(st, row, t) ==
    IF row.payment_id = 0 THEN st
    ELSE IF HasData(row)
         THEN Put(st, row.payment_id,
                  IF row.payment_id \in Keys(st)
                  THEN merged_record(Get(st, row.payment_id), TRUE, row, t)
                  ELSE merged_record(row, FALSE, row, t))
         ELSE Put(st, row.payment_id, legacy_record(st, row))

RECURSIVE merge_rows(_, _, _)
merge_rows(st, metadata_rows, t) ==
    IF metadata_rows = <<>> THEN st
    ELSE merge_rows(merge_row(st, Head(metadata_rows), t), Tail(metadata_rows), t)

\* Mutant: the merged state holds the crawled rows only.
merge_metadata_replace(st, metadata_rows, t) == merge_rows(<<>>, metadata_rows, t)

\* merge_metadata: the state with every row merged in, in row order.
merge_metadata(st, metadata_rows, t) == merge_rows(st, metadata_rows, t)

-----------------------------------------------------------------------------
(* Files.  A file is missing, or holds the records written so far and       *)
(* whether the JSON text is whole (the closing bracket is written).         *)

StatePath == "state.json"

Missing == [exists |-> FALSE, recs |-> <<>>, whole |-> FALSE]
WholeFile(recs) == [exists |-> TRUE, recs |-> recs, whole |-> TRUE]

\* Mutant: save_state writes the state file in place.
TmpPath_in_place(path) == path

\* path.with_suffix(path.suffix + ".tmp"): the sibling temp path.
TmpPath(path) == IF path = "state.json" THEN "state.json.tmp" ELSE path

Paths == {StatePath, TmpPath(StatePath)}

\* load_state on a readable file: records without a payment id are skipped,
\* metadata is normalized, a missing parsed_url is filled in, and a later
\* record with the same payment id replaces the earlier one.
\* A record read from the file may lack keys.
With(record, key, value) ==
    [f \in DOMAIN record \cup {key} |-> IF f = key THEN value ELSE record[f]]
Without(record, key) == [f \in DOMAIN record \ {key} |-> record[f]]

\* The body of load_state's loop for a record with a payment id: metadata
\* that is a dict is normalized, a missing or empty parsed_url becomes the
\* report URL, and a parsed_url inside data is removed.
loaded_record(record) ==
    LET r1 == IF "metadata" \in DOMAIN record
              THEN With(record, "metadata", normalize_metadata_fields(record.metadata))
              ELSE record
        r2 == IF "parsed_url" \in DOMAIN r1 /\ r1.parsed_url # ""
              THEN r1 ELSE With(r1, "parsed_url", ORDER_DETAILS_URL)
    IN  IF "data" \in DOMAIN r2 /\ "parsed_url" \in DOMAIN r2.data
        THEN With(r2, "data", Without(r2.data, "parsed_url"))
        ELSE r2

RECURSIVE load_records(_, _)
load_records(normalized, records) ==
    IF records = <<>> THEN normalized
    ELSE LET record == Head(records)
         IN  load_records(IF "payment_id" \notin DOMAIN record \/ record.payment_id = 0
                          THEN normalized
                          ELSE Put(normalized, record.payment_id, loaded_record(record)),
                          Tail(records))

load_state(file) == IF ~file.exists THEN <<>> ELSE load_records(<<>>, file.recs)

\* sorted(rows, key=payment_id): a stable insertion sort.
RECURSIVE insert_sorted(_, _)
insert_sorted(sorted, rec) ==
    IF sorted = <<>> THEN <<rec>>
    ELSE IF Head(sorted).payment_id <= rec.payment_id
         THEN <<Head(sorted)>> \o insert_sorted(Tail(sorted), rec)
         ELSE <<rec>> \o sorted

RECURSIVE sort_by_payment_id(_)
sort_by_payment_id(rows) ==
    IF rows = <<>> THEN <<>>
    ELSE insert_sorted(sort_by_payment_id(SubSeq(rows, 1, Len(rows) - 1)), rows[Len(rows)])

\* Mutant: the payload is written in dict order.
state_payload_unsorted(st) == st

\* save_state: the payload, the records sorted by payment id.
state_payload(st) == sort_by_payment_id(st)

\* save_state is called: nothing is written yet.
SaveCall(st) ==
    /\ save_pc' = "open"
    /\ save_payload' = state_payload(st)
    /\ committed' = fs[StatePath]

\* tmp.write_text opens the temp file for writing, truncating it.
SaveOpen ==
    /\ save_pc = "open"
    /\ fs' = [fs EXCEPT ![TmpPath(StatePath)] =
                            [exists |-> TRUE, recs |-> <<>>, whole |-> FALSE]]
    /\ save_pc' = "write"
    /\ UNCHANGED <<ext_vars, state, pc, save_payload, committed, now, block, crawl_vars>>

\* tmp.write_text writes the next part of the text.
SaveWrite ==
    /\ save_pc = "write"
    /\ LET tmp == TmpPath(StatePath)
           n == Len(fs[tmp].recs)
       IN  IF n < Len(save_payload)
           THEN /\ fs' = [fs EXCEPT ![tmp].recs = Append(@, save_payload[n + 1])]
                /\ save_pc' = "write"
           ELSE /\ fs' = [fs EXCEPT ![tmp].whole = TRUE]
                /\ save_pc' = "rename"
    /\ UNCHANGED <<ext_vars, state, pc, save_payload, committed, now, block, crawl_vars>>

\* tmp.replace(path): the rename.
SaveRename ==
    /\ save_pc = "rename"
    /\ LET tmp == TmpPath(StatePath)
       IN  fs' = IF tmp = StatePath THEN fs
                 ELSE [fs EXCEPT ![StatePath] = fs[tmp], ![tmp] = Missing]
    /\ save_pc' = "done"
    /\ UNCHANGED <<ext_vars, state, pc, save_payload, committed, now, block, crawl_vars>>

-----------------------------------------------------------------------------
(* The rendered page and the helpers that read it: get_pagination_summary,  *)
(* click_next_order_details_page and the payment id that                    *)
(* extract_order_detail_blocks gives an order block.                        *)

MaxSpans == 2       \* .pagination-summary elements on a page
MaxWidgets == 2     \* .pagination widgets on a page
MaxDomBlocks == 2   \* order blocks on a page of the DOM inputs

\* The text of a .pagination-summary element: "Showing x through y of z",
\* some other text with numbers in it ("Page x of z"), or nothing.
ShowingText(x, y, z) == [words |-> "showing-through-of", nums |-> <<x, y, z>>]
PageOfText(x, z) == [words |-> "page-of", nums |-> <<x, z>>]
BlankText == [words |-> "", nums |-> <<>>]

\* text.match(/Showing\s+(\d+)\s+through\s+(\d+)\s+of\s+(\d+)/i)
summary_match(text) == text.words = "showing-through-of" /\ Len(text.nums) = 3

EmptySummary == [has |-> FALSE, start |-> 0, end |-> 0, total |-> 0]

\* Mutant: the first .pagination-summary element is the one read.
get_pagination_summary_first(d, raised) ==
    IF raised \/ d.summaries = <<>> THEN EmptySummary
    ELSE IF ~summary_match(d.summaries[1]) THEN EmptySummary
         ELSE [has |-> TRUE, start |-> d.summaries[1].nums[1],
               end |-> d.summaries[1].nums[2], total |-> d.summaries[1].nums[3]]

\* get_pagination_summary: the last .pagination-summary element is parsed;
\* nothing comes back when there is none, when its text does not match, or
\* when page.evaluate raises.
get_pagination_summary(d, raised) ==
    IF raised \/ d.summaries = <<>> THEN EmptySummary
    ELSE LET last == d.summaries[Len(d.summaries)]
         IN  IF ~summary_match(last) THEN EmptySummary
             ELSE [has |-> TRUE, start |-> last.nums[1],
                   end |-> last.nums[2], total |-> last.nums[3]]

\* Mutant: no summary is taken for the last page's.
is_last_page_never(summary) == FALSE

\* crawl_metadata's test for the last page on a summary it has read.
is_last_page(summary) == summary.has /\ summary.end >= summary.total

\* A .pagination widget: its first li.next (none, enabled, or with a class
\* holding "disabled") and the first anchor in it (none, hidden, visible).
Widget(next, anchor) == [next |-> next, anchor |-> anchor]
NoClick == [clicked |-> FALSE, target |-> 0]

\* Mutant: the first .pagination widget is the one clicked.
next_click_script_first(d) ==
    IF d.paginations = <<>> THEN NoClick
    ELSE LET nextLi == d.paginations[1]
         IN  IF nextLi.next # "enabled" \/ nextLi.anchor # "visible" THEN NoClick
             ELSE [clicked |-> TRUE, target |-> 1]

\* The script click_next_order_details_page runs in the page: what it clicks.
next_click_script(d) ==
    IF d.paginations = <<>> THEN NoClick
    ELSE LET lastPagination == Len(d.paginations)
             nextLi == d.paginations[lastPagination]
         IN  IF nextLi.next = "none" THEN NoClick
             ELSE IF nextLi.next = "disabled" THEN NoClick
             ELSE IF nextLi.anchor # "visible" THEN NoClick
             ELSE [clicked |-> TRUE, target |-> lastPagination]

\* click_next_order_details_page: page.evaluate raises before the script runs
\* ("before"), after it has run ("after"), or not at all ("no"); the call
\* returns bool(clicked), and False when it raised.
click_next_order_details_page(d, raised) ==
    LET script == IF raised = "before" THEN NoClick ELSE next_click_script(d)
    IN  [returned |-> raised = "no" /\ script.clicked,
         clicked |-> script.clicked, target |-> script.target]

\* The elements of an order block that its payment id is read from: the
\* texts of its .order-detail-meta-id elements (with the id that follows
\* "ID:" in them, <<>> when there is no "ID: x"), the action of its
\* reopen-check form (with the id that follows "id=" in it), and the number in its
\* "Order #" header (0: none).  Texts are sequences of characters.
MetaId(id) == [id |-> id]
NoForm == [present |-> FALSE, id |-> <<>>]
ReopenForm(id) == [present |-> TRUE, id |-> id]
OrderElement(meta_ids, form, order_number) ==
    [meta_ids |-> meta_ids, form |-> form, order_number |-> order_number]

OrderPrefix == "order-"

\* The first .order-detail-meta-id element whose text matches "ID: x".
RECURSIVE first_meta_id(_)
first_meta_id(meta_ids) ==
    IF meta_ids = <<>> THEN <<>>
    ELSE IF Head(meta_ids).id # <<>> THEN Head(meta_ids).id
         ELSE first_meta_id(Tail(meta_ids))

\* checkId of the order block at position idx (from 0) of the page.
check_id(order, idx) ==
    LET from_meta == first_meta_id(order.meta_ids)
        checkId == IF from_meta = <<>> /\ order.form.present
                   THEN order.form.id ELSE from_meta
    IN  IF checkId # <<>> THEN checkId
        ELSE <<OrderPrefix, IF order.order_number # 0 THEN order.order_number
                            ELSE idx + 1>>

\* The payment ids extract_order_detail_blocks gives the blocks of the page.
extract_payment_ids(d) == [i \in 1..Len(d.blocks) |-> check_id(d.blocks[i], i - 1)]

\* A page.
Dom(summaries, paginations, blocks) ==
    [summaries |-> summaries, paginations |-> paginations, blocks |-> blocks]
BlankDom == Dom(<<>>, <<>>, <<>>)

NoResult == [value |-> <<>>, raised |-> "no"]

IdleDom ==
    /\ dom = BlankDom
    /\ dom_result = NoResult
    /\ clicks = <<>>

\* A report: its pages (the order blocks of each), the total its summaries
\* give, whether a click on Next loads the next page, and the polls the
\* load takes.
Site(pages, total, advances, delay) ==
    [pages |-> pages, total |-> total, advances |-> advances, delay |-> delay]
NoSite == Site(<<>>, 0, FALSE, 0)

IdleSite ==
    /\ site = NoSite
    /\ site_page = 0
    /\ site_loading = 0
    /\ waited = 0
    /\ log = <<>>

\* An exception: its class and the words of its message.
Exc(class, message) == [class |-> class, message |-> message]
NoExc == Exc("", <<>>)

\* "word" in str(exc)
InMessage(word, exc) == \E i \in 1..Len(exc.message) : exc.message[i] = word

NoFlags == [none |-> TRUE]

IdleRun ==
    /\ args = NoFlags
    /\ attempt = 0
    /\ error = NoExc
    /\ profile = "used"
    /\ context = "none"
    /\ causes = {}

\* Nothing but the specification's own component is at work.
MultScale == 1000000    \* throttle_multiplier = 1.0

IdleThrottle ==
    /\ tasks = <<>>
    /\ next_start_at = 0
    /\ throttle_multiplier = MultScale
    /\ throttle_until = 0
    /\ throttle_events = 0

IdleExt == IdleDom /\ IdleSite /\ IdleRun /\ IdleThrottle

-----------------------------------------------------------------------------
(* The parser specification: one order block is parsed into a row and the   *)
(* row is merged into the state.                                            *)

\* No crawl is under way and none has been.
NoPrev == [valid |-> FALSE, rows |-> <<>>, file |-> Missing]

CrawlLocalsReset ==
    /\ all_rows' = <<>>
    /\ seen_ids' = {}
    /\ page_signatures' = {}
    /\ page_count' = 0
    /\ events' = {}
    /\ last_total' = None
    /\ accepted_sigs' = <<>>

IdleCrawl ==
    /\ limit = 0
    /\ max_pages = 0
    /\ all_rows = <<>>
    /\ seen_ids = {}
    /\ page_signatures = {}
    /\ page_count = 0
    /\ events = {}
    /\ last_total = None
    /\ accepted_sigs = <<>>
    /\ interrupted = {}
    /\ prev = NoPrev

IdleStore ==
    /\ fs = [path \in Paths |-> Missing]
    /\ save_pc = "idle"
    /\ save_payload = <<>>
    /\ committed = Missing

AcceptBlock ==
    /\ pc = "parse"
    /\ \E row \in {row_of_block(block.payment_id, block)} :
           state' = merge_metadata(state, <<row>>, now)
    /\ pc' = "parsed"
    /\ UNCHANGED <<ext_vars, block, fs, save_pc, save_payload, committed, now, crawl_vars>>

InitParser ==
    /\ block \in BlockInputs
    /\ IdleExt
    /\ state = <<>>
    /\ pc = "parse"
    /\ now = 1
    /\ IdleStore
    /\ IdleCrawl

NextParser == AcceptBlock

SpecParser == InitParser /\ [][NextParser]_vars

-----------------------------------------------------------------------------
(* The order blocks the site shows for a payment id.                        *)

S4Block(item_net, total, fp_over) ==
    mk_block([S4Summary EXCEPT !.total = Num(total)], <<>>,
             << ItemsTable(<< [GoodItemRow EXCEPT !.net = Num(item_net)] >>),
                PaymentsTable(<<GoodPaymentRow>>) >>,
             NameCell, BlankBody, Num(7), fp_over)

\* id 2 shows a check whose total is off; every other id a reconciling check.
SiteVariants(id) ==
    IF id = 2 THEN {S4Block(10000, 13000, FALSE)}
    ELSE {S4Block(10000, 12888, FALSE)}

\* The report shows one payment id more than the runs of the store and of
\* the orchestrator see.
SiteIds == 1..(MaxId + 1)

SiteBlocks ==
    UNION { {[b EXCEPT !.payment_id = id] : b \in SiteVariants(id)} : id \in SiteIds }

\* The blocks of the ids the store and the orchestrator runs see.
StoreBlocks == {b \in SiteBlocks : b.payment_id \in Ids}

\* The row crawl_metadata builds from each block the report shows.
SiteRows == [b \in SiteBlocks |-> row_of_block(b.payment_id, b)]

-----------------------------------------------------------------------------
(* The store specification: any sequence of load_state, merge_metadata,     *)
(* process_details record updates and save_state, with the process killed   *)
(* at any point.                                                            *)

MaxRuns == 2        \* process launches
MaxAttempts == 2    \* attempts counted per record
MaxRows == 2        \* rows per merge_metadata call

AttemptsLeft(st, pid) ==
    IF pid \in Keys(st) THEN Get(st, pid).attempts < MaxAttempts ELSE TRUE

\* A new process starts and load_state reads the state file (json.loads
\* raises on a file that is not whole, and the process ends).
StoreLoad ==
    /\ pc = "down"
    /\ now < MaxRuns
    /\ now' = now + 1
    /\ IF fs[StatePath].exists /\ ~fs[StatePath].whole
       THEN UNCHANGED <<state, pc>>
       ELSE /\ state' = load_state(fs[StatePath])
            /\ pc' = "ready"
    /\ UNCHANGED <<ext_vars, fs, save_pc, save_payload, committed, block, crawl_vars>>

\* merge_metadata followed by save_state, as in run_once.
StoreMerge(rows) ==
    /\ pc = "ready"
    /\ \A i \in 1..Len(rows) : AttemptsLeft(state, rows[i].payment_id)
    /\ state' = merge_metadata(state, rows, now)
    /\ pc' = "saving"
    /\ SaveCall(state')
    /\ UNCHANGED <<ext_vars, fs, now, block, crawl_vars>>

\* process_details.run_one, success: the record update under the lock,
\* followed by save_state.
StoreDetailOk(payment_id, d) ==
    /\ pc = "ready"
    /\ payment_id \in Keys(state)
    /\ ~Get(state, payment_id).complete
    /\ AttemptsLeft(state, payment_id)
    /\ state' = Put(state, payment_id,
                    [Get(state, payment_id) EXCEPT
                        !.attempts = @ + 1,
                        !.data = d,
                        !.complete = d.complete,
                        !.extracted_at = now,
                        !.last_error = <<>>,
                        !.parsed_url = ORDER_DETAILS_URL])
    /\ pc' = "saving"
    /\ SaveCall(state')
    /\ UNCHANGED <<ext_vars, fs, now, block, crawl_vars>>

\* process_details.run_one, failure: the record update under the lock,
\* followed by save_state.
StoreDetailErr(payment_id, message) ==
    /\ pc = "ready"
    /\ payment_id \in Keys(state)
    /\ ~Get(state, payment_id).complete
    /\ AttemptsLeft(state, payment_id)
    /\ state' = Put(state, payment_id,
                    [Get(state, payment_id) EXCEPT
                        !.attempts = @ + 1,
                        !.last_error = << [kind |-> message, idx |-> 0,
                                           expected |-> 0, actual |-> 0] >>,
                        !.complete = FALSE,
                        !.extracted_at = now])
    /\ pc' = "saving"
    /\ SaveCall(state')
    /\ UNCHANGED <<ext_vars, fs, now, block, crawl_vars>>

\* save_state has returned.
StoreSaved ==
    /\ pc = "saving"
    /\ save_pc = "done"
    /\ pc' = "ready"
    /\ save_pc' = "idle"
    /\ UNCHANGED <<ext_vars, fs, state, save_payload, committed, now, block, crawl_vars>>

\* The process is killed: its memory is gone, the files stay.
Kill ==
    /\ pc \notin {"down", "done", "parse", "parsed"}
    /\ pc' = "down"
    /\ state' = <<>>
    /\ save_pc' = "idle"
    /\ interrupted' = interrupted \cup {all_rows[i].payment_id : i \in 1..Len(all_rows)}
    /\ CrawlLocalsReset
    /\ UNCHANGED <<ext_vars, fs, save_payload, committed, now, block, limit, max_pages, prev>>

\* The rows handed to merge_metadata: parsed rows of site blocks, and legacy
\* rows without parsed data.
LegacyRow(id) ==
    [payment_id |-> id,
     metadata |-> << [key |-> "Order #", value |-> Num(7)] >>,
     data |-> NoData, complete |-> FALSE, last_error |-> <<>>, parsed_url |-> ""]

RowInputs ==
    {SiteRows[b] : b \in StoreBlocks}
        \cup {LegacyRow(id) : id \in Ids}

InitStore ==
    /\ block = S4Block(10000, 12888, FALSE)
    /\ IdleExt
    /\ state = <<>>
    /\ pc = "down"
    /\ IdleStore
    /\ IdleCrawl
    /\ now = 0

NextStore ==
    \/ StoreLoad
    \/ \E rows \in SeqsUpTo(RowInputs, MaxRows) : StoreMerge(rows)
    \/ \E b \in StoreBlocks :
           StoreDetailOk(b.payment_id,
                         map_detail_payload(b.payload, normalize_metadata_fields(b.metadata)))
    \/ \E id \in Ids, message \in {"status=429", "timeout"} : StoreDetailErr(id, message)
    \/ SaveOpen
    \/ SaveWrite
    \/ SaveRename
    \/ StoreSaved
    \/ Kill

SpecStore == InitStore /\ [][NextStore]_vars

-----------------------------------------------------------------------------
(* crawl_metadata: the pagination loop over the order-details report.       *)

MaxPageRows == 2    \* order blocks per rendered page

SignatureLen == 6   \* payment ids per page signature
Sep == 0            \* the "|" that joins the ids of a signature

\* Mutant: the text of an id may hold the separator (id 2 reads "1|3").
IdText_piped(id) == IF id = 2 THEN <<1, Sep, 3>> ELSE <<id>>

\* The text of a payment id, as characters.  extract_order_detail_blocks takes
\* an id from a label or a form by [A-Za-z0-9_-]+, or makes order-<digits>:
\* no text holds the "|".  Id 2 reads "13", and the ids sort as their texts do.
IdText(id) == IF id = 2 THEN <<1, 3>> ELSE <<id>>

\* "|".join(signature_ids)
RECURSIVE Join(_)
Join(ids) ==
    IF ids = <<>> THEN <<>>
    ELSE IF Len(ids) = 1 THEN IdText(ids[1])
         ELSE IdText(Head(ids)) \o <<Sep>> \o Join(Tail(ids))

\* Mutant: a row is accepted whether its id was seen or not.
accept_row_seen(acc, row, lim) ==
    IF row.payment_id = 0 THEN acc
    ELSE [all_rows |-> Append(acc.all_rows, SiteRows[row]),
          seen_ids |-> acc.seen_ids \cup {row.payment_id},
          signature_ids |-> IF Len(acc.signature_ids) < SignatureLen
                            THEN Append(acc.signature_ids, row.payment_id)
                            ELSE acc.signature_ids,
          page_added |-> acc.page_added + 1,
          broke |-> lim # 0 /\ Len(acc.all_rows) + 1 >= lim]

\* The body of the for loop over raw_rows, for one row: acc holds all_rows,
\* seen_ids, signature_ids and page_added, and whether the loop has hit the
\* limit and broken off.
accept_row(acc, row, lim) ==
    IF row.payment_id = 0 \/ row.payment_id \in acc.seen_ids THEN acc
    ELSE [all_rows |-> Append(acc.all_rows, SiteRows[row]),
          seen_ids |-> acc.seen_ids \cup {row.payment_id},
          signature_ids |-> IF Len(acc.signature_ids) < SignatureLen
                            THEN Append(acc.signature_ids, row.payment_id)
                            ELSE acc.signature_ids,
          page_added |-> acc.page_added + 1,
          broke |-> lim # 0 /\ Len(acc.all_rows) + 1 >= lim]

\* The for loop over raw_rows.
RECURSIVE accept_rows(_, _, _)
accept_rows(raw_rows, acc, lim) ==
    IF raw_rows = <<>> \/ acc.broke THEN acc
    ELSE accept_rows(Tail(raw_rows), accept_row(acc, Head(raw_rows), lim), lim)

\* Mutant: a page that adds nothing never stops the crawl.
page_stalled_never(count, page_added) == FALSE

\* page_count > 1 and page_added == 0
page_stalled(count, page_added) == count > 1 /\ page_added = 0

\* signature in page_signatures
signature_repeated(signature, signatures) == signature \in signatures

\* What get_pagination_summary reads: nothing, or "Showing x through y of z".
NoSummary == [has |-> FALSE, end |-> 0, total |-> 0]
PaginationSummaries ==
    {NoSummary} \cup
    UNION { {[has |-> TRUE, end |-> e, total |-> t] :
                e \in {IF t > 0 THEN t - 1 ELSE 0, t}} : t \in 0..(MaxId + 1) }

\* What extract_order_detail_blocks returns for the rendered page.
PageInputs == SeqsUpTo(SiteBlocks, MaxPageRows)

Stalled(reason) == <<"order_details_pagination_stalled", reason>>
PageFetched == <<"order_details_page_fetched", "">>
PaginationComplete == <<"order_details_pagination_complete", "">>
PaginationMismatch == <<"order_details_pagination_mismatch", "">>
PaginationVerified == <<"order_details_pagination_verified", "">>

\* One turn of the while loop as a function of the loop's locals and of what
\* the page gives: the page is extracted, its new rows are accepted, the
\* signature is checked, the summary is read, and the loop breaks or clicks
\* Next.  log holds the events of the turn in the order they are logged;
\* continues says that Next was clicked and the loop goes round again.
page_turn(rows, seen, signatures, count, lim, maxp, raw_rows, current_summary, no_items, clicked) ==
    Only({ Only({
        LET n == count + 1
            repeated == signature # <<>> /\ signature_repeated(signature, signatures)
            at_limit == lim # 0 /\ Len(acc.all_rows) >= lim
            no_new_ids == page_stalled(n, acc.page_added)
            at_max_pages == maxp # 0 /\ n >= maxp
            at_end == is_last_page(current_summary)
            breaks == at_limit \/ no_new_ids \/ at_max_pages \/ no_items
                          \/ raw_rows = <<>>
        IN  [all_rows |-> acc.all_rows,
             seen_ids |-> acc.seen_ids,
             signature |-> signature,
             repeated |-> repeated,
             log |-> IF repeated THEN <<Stalled("repeated_page_signature")>>
                     ELSE <<PageFetched>>
                          \o (IF ~at_limit /\ no_new_ids
                              THEN <<Stalled("no_new_ids")>> ELSE <<>>)
                          \o (IF ~breaks /\ at_end
                              THEN <<PaginationComplete>> ELSE <<>>),
             clicks_next |-> ~repeated /\ ~breaks /\ ~at_end,
             continues |-> ~repeated /\ ~breaks /\ ~at_end /\ clicked] :
        signature \in {Join(acc.signature_ids)} }) :
      acc \in {accept_rows(raw_rows,
                           [all_rows |-> rows, seen_ids |-> seen,
                            signature_ids |-> <<>>, page_added |-> 0,
                            broke |-> FALSE],
                           lim)} })

Range(s) == {s[i] : i \in 1..Len(s)}

\* One turn of the while loop on crawl_metadata's locals; after a click the
\* crawl goes on at after_click.
crawl_page(raw_rows, current_summary, no_items, clicked, after_click) ==
    /\ pc = "crawl"
    /\ \E turn \in {page_turn(all_rows, seen_ids, page_signatures, page_count,
                              limit, max_pages,
                              raw_rows, current_summary, no_items, clicked)} :
           /\ page_count' = page_count + 1
           /\ all_rows' = turn.all_rows
           /\ seen_ids' = turn.seen_ids
           /\ events' = events \cup Range(turn.log)
           /\ accepted_sigs' = IF turn.signature # <<>>
                               THEN Append(accepted_sigs, turn.signature)
                               ELSE accepted_sigs
           /\ IF turn.repeated
              THEN UNCHANGED <<page_signatures, last_total>>
              ELSE /\ page_signatures' =
                          IF turn.signature # <<>>
                          THEN page_signatures \cup {turn.signature}
                          ELSE page_signatures
                   /\ last_total' =
                          IF current_summary.has THEN current_summary.total ELSE last_total
           /\ pc' = IF turn.continues THEN after_click ELSE "verify"
    /\ UNCHANGED <<block, fs, state, save_pc, save_payload, committed, now,
                   limit, max_pages, interrupted, prev>>

CrawlPage(raw_rows, current_summary, no_items, clicked) ==
    /\ crawl_page(raw_rows, current_summary, no_items, clicked, "crawl")
    /\ UNCHANGED ext_vars

\* The events of the final verification, in the order they are logged.
verify_log(final_summary, collected) ==
    LET expected_total == IF final_summary.has THEN final_summary.total ELSE 0
    IN  IF expected_total # 0 /\ collected # expected_total
        THEN <<PaginationMismatch>>
        ELSE IF expected_total # 0 THEN <<PaginationVerified>> ELSE <<>>

\* The final verification after the loop; crawl_metadata returns.
crawl_verify(final_summary) ==
    /\ pc = "verify"
    /\ events' = events \cup Range(verify_log(final_summary, Len(all_rows)))
    /\ last_total' = IF final_summary.has THEN final_summary.total ELSE last_total
    /\ pc' = "merge"
    /\ UNCHANGED <<block, fs, state, save_pc, save_payload, committed, now,
                   limit, max_pages, all_rows, seen_ids, page_signatures, page_count,
                   accepted_sigs, interrupted, prev>>

CrawlVerify(final_summary) ==
    /\ crawl_verify(final_summary)
    /\ UNCHANGED ext_vars

-----------------------------------------------------------------------------
(* run_once and run: a process loads the state, authenticates, crawls,      *)
(* merges the rows into the state and saves it.                             *)

\* run_once starts: load_state.  crawl_metadata's locals are fresh.
RunStart ==
    /\ pc \in {"down", "done"}
    /\ now < MaxRuns
    /\ now' = now + 1
    /\ IF fs[StatePath].exists /\ ~fs[StatePath].whole
       THEN UNCHANGED <<state, pc>>
       ELSE /\ state' = load_state(fs[StatePath])
            /\ pc' = "auth"
    /\ prev' = IF pc = "done"
               THEN [valid |-> TRUE, rows |-> all_rows, file |-> fs[StatePath]]
               ELSE NoPrev
    /\ CrawlLocalsReset
    /\ UNCHANGED <<ext_vars, block, fs, save_pc, save_payload, committed, limit, max_pages,
                   interrupted>>

\* ensure_authenticated returns.
AuthOk ==
    /\ pc = "auth"
    /\ pc' = "crawl"
    /\ UNCHANGED <<ext_vars, block, fs, state, save_pc, save_payload, committed, now, crawl_vars>>

\* ensure_authenticated raises (AUTH_BLOCKED, PROFILE_LOCKED, a timeout):
\* run_once ends, and run restarts it from load_state or lets the error out.
AuthFailed ==
    /\ pc = "auth"
    /\ pc' = "down"
    /\ state' = <<>>
    /\ UNCHANGED <<ext_vars, block, fs, save_pc, save_payload, committed, now, crawl_vars>>

\* merge_metadata(state, metadata_rows) and the call of save_state.
RunMerge ==
    /\ pc = "merge"
    /\ state' = merge_metadata(state, all_rows, now)
    /\ pc' = "saving"
    /\ SaveCall(state')
    /\ UNCHANGED <<ext_vars, block, fs, now, crawl_vars>>

\* save_state has returned; the run goes on to its end.
RunSaved ==
    /\ pc = "saving"
    /\ save_pc = "done"
    /\ pc' = "done"
    /\ save_pc' = "idle"
    /\ UNCHANGED <<ext_vars, block, fs, state, save_payload, committed, now, crawl_vars>>

\* A state file left by earlier runs: none, or one with a record of id 1
\* whose line total was off.
OldRecord ==
    Only({ merged_record(row, FALSE, row, 0) :
           row \in {row_of_block(1, S4Block(10010, 12888, FALSE))} })

InitFiles == {Missing, WholeFile(<<OldRecord>>)}

\* (limit, max_pages) as given on the command line.
ArgInputs == {<<0, 0>>, <<2, 0>>, <<0, 2>>}

Init ==
    /\ block = S4Block(10000, 12888, FALSE)
    /\ IdleExt
    /\ state = <<>>
    /\ pc = "down"
    /\ now = 0
    /\ \E f \in InitFiles :
           /\ fs = [path \in Paths |-> IF path = StatePath THEN f ELSE Missing]
           /\ committed = f
    /\ save_pc = "idle"
    /\ save_payload = <<>>
    /\ \E a \in ArgInputs : limit = a[1] /\ max_pages = a[2]
    /\ all_rows = <<>>
    /\ seen_ids = {}
    /\ page_signatures = {}
    /\ page_count = 0
    /\ events = {}
    /\ last_total = None
    /\ accepted_sigs = <<>>
    /\ interrupted = {}
    /\ prev = NoPrev

Next ==
    \/ RunStart
    \/ AuthOk
    \/ AuthFailed
    \/ \E raw_rows \in SeqsUpTo(StoreBlocks, MaxPageRows),
          current_summary \in PaginationSummaries,
          no_items \in BOOLEAN, clicked \in BOOLEAN :
           CrawlPage(raw_rows, current_summary, no_items, clicked)
    \/ \E final_summary \in PaginationSummaries : CrawlVerify(final_summary)
    \/ RunMerge
    \/ SaveOpen
    \/ SaveWrite
    \/ SaveRename
    \/ RunSaved
    \/ Kill

Spec == Init /\ [][Next]_vars

-----------------------------------------------------------------------------
(* The crawl specification: one call of crawl_metadata, over every report.  *)

InitCrawl ==
    /\ block = S4Block(10000, 12888, FALSE)
    /\ IdleExt
    /\ state = <<>>
    /\ pc = "crawl"
    /\ now = 1
    /\ IdleStore
    /\ \E a \in ArgInputs : limit = a[1] /\ max_pages = a[2]
    /\ all_rows = <<>>
    /\ seen_ids = {}
    /\ page_signatures = {}
    /\ page_count = 0
    /\ events = {}
    /\ last_total = None
    /\ accepted_sigs = <<>>
    /\ interrupted = {}
    /\ prev = NoPrev

NextCrawl ==
    \/ \E raw_rows \in PageInputs, current_summary \in PaginationSummaries,
          no_items \in BOOLEAN, clicked \in BOOLEAN :
           CrawlPage(raw_rows, current_summary, no_items, clicked)
    \/ \E final_summary \in PaginationSummaries : CrawlVerify(final_summary)

SpecCrawl == InitCrawl /\ [][NextCrawl]_vars

\* The same crawl, with what the page helpers gave the last turn of the loop
\* kept in dom_result: the order blocks, how many of them were new, the
\* pagination summary, the no-items message, and whether the turn went as far
\* as click_next_order_details_page.
CrawlTurn(raw_rows, current_summary, no_items, clicked) ==
    /\ crawl_page(raw_rows, current_summary, no_items, clicked, "crawl")
    /\ \E turn \in {page_turn(all_rows, seen_ids, page_signatures, page_count,
                              limit, max_pages,
                              raw_rows, current_summary, no_items, clicked)} :
           dom_result' = [blocks |-> Len(raw_rows),
                          page_added |-> Len(turn.all_rows) - Len(all_rows),
                          summary |-> current_summary,
                          no_items |-> no_items,
                          clicks_next |-> turn.clicks_next]
    /\ UNCHANGED <<dom, clicks, site_vars, run_vars, thr_vars>>

NextTurn ==
    \/ \E raw_rows \in PageInputs, current_summary \in PaginationSummaries,
          no_items \in BOOLEAN, clicked \in BOOLEAN :
           CrawlTurn(raw_rows, current_summary, no_items, clicked)
    \/ \E final_summary \in PaginationSummaries : CrawlVerify(final_summary)

SpecTurn == InitCrawl /\ [][NextTurn]_vars

\* Every step of the loop returns: the waits for the page, for the idle
\* report and for the change after a click all have timeouts.
SpecCrawlLive == SpecCrawl /\ WF_vars(NextCrawl)

-----------------------------------------------------------------------------
(* crawl_menu_item_summary: the pagination loop over the Menu Item Summary. *)

MaxMenuRows == 2    \* table rows per rendered page of the summary
MaxMenuPages == 5   \* page_count is exact up to this value

KeysLen == 4        \* row keys per page signature

\* A table row as extract_menu_item_summary_rows maps it: header -> cell, the
\* blank cells left out ("" here), and no row of blank cells only.
MenuRows ==
    {[Item |-> item, Qty |-> qty] : item \in {"", "Fries"}, qty \in {"", "2"}}
        \ {[Item |-> "", Qty |-> ""]}
MenuPages == SeqsUpTo(MenuRows, MaxMenuRows)

\* "|".join(f"{k}:{row[k]}" for k in sorted(row.keys())), as the sequence of
\* its k:v parts.
menu_key(row) ==
    (IF row.Item # "" THEN << <<"Item", row.Item>> >> ELSE <<>>)
        \o (IF row.Qty # "" THEN << <<"Qty", row.Qty>> >> ELSE <<>>)

\* The for loop over rows: acc holds all_rows, seen_keys and signature_parts.
RECURSIVE menu_accept(_, _)
menu_accept(rows, acc) ==
    IF rows = <<>> THEN acc
    ELSE LET row == Head(rows)
             key == menu_key(row)
         IN  menu_accept(Tail(rows),
                 IF key \in acc.seen_keys THEN acc
                 ELSE [all_rows |-> Append(acc.all_rows, row),
                       seen_keys |-> acc.seen_keys \cup {key},
                       signature_parts |->
                           IF Len(acc.signature_parts) < KeysLen
                           THEN Append(acc.signature_parts, key)
                           ELSE acc.signature_parts])

\* "|".join(signature_parts): the keys are "|"-joined parts themselves.
RECURSIVE menu_signature(_)
menu_signature(parts) ==
    IF parts = <<>> THEN <<>> ELSE Head(parts) \o menu_signature(Tail(parts))

MenuFetched == <<"menu_summary_page_fetched", "">>
MenuStalled(reason) == <<"menu_summary_pagination_stalled", reason>>

\* What ends the loop after a page that was taken: max_pages, or a Next that
\* was not clicked.
menu_breaks(count, maxp, clicked) == (maxp # 0 /\ count >= maxp) \/ ~clicked

\* page_count += 1.  The count has no upper bound; past MaxMenuPages, which
\* is above every max_pages given, it is kept as the alternation of
\* MaxMenuPages and MaxMenuPages + 1.
menu_page_count(count) == IF count <= MaxMenuPages THEN count + 1 ELSE count - 1

\* One turn of the while loop: the rows of the page are read, the new ones
\* are accepted, the signature is checked, and the loop breaks or clicks Next.
MenuPage(rows, clicked) ==
    /\ pc = "menu_crawl"
    /\ \E acc \in {menu_accept(rows, [all_rows |-> all_rows, seen_keys |-> seen_ids,
                                       signature_parts |-> <<>>])} :
       \E signature \in {menu_signature(acc.signature_parts)} :
           LET n == menu_page_count(page_count)
               repeated == signature # <<>> /\ signature \in page_signatures
           IN  /\ page_count' = n
               /\ all_rows' = acc.all_rows
               /\ seen_ids' = acc.seen_keys
               /\ events' = events \cup {MenuFetched}
                                \cup (IF repeated
                                      THEN {MenuStalled("repeated_page_signature")}
                                      ELSE {})
               /\ page_signatures' = IF signature # <<>>
                                     THEN page_signatures \cup {signature}
                                     ELSE page_signatures
               /\ pc' = IF repeated \/ menu_breaks(n, max_pages, clicked)
                        THEN "menu_returned" ELSE "menu_crawl"
    /\ UNCHANGED <<store_vars, now, limit, max_pages, last_total, accepted_sigs,
                   interrupted, prev, ext_vars>>

InitMenu ==
    /\ block = S4Block(10000, 12888, FALSE)
    /\ IdleExt
    /\ state = <<>>
    /\ pc = "menu_crawl"
    /\ now = 1
    /\ IdleStore
    /\ limit = 0
    /\ max_pages \in {0, 2}
    /\ all_rows = <<>>
    /\ seen_ids = {}
    /\ page_signatures = {}
    /\ page_count = 0
    /\ events = {}
    /\ last_total = None
    /\ accepted_sigs = <<>>
    /\ interrupted = {}
    /\ prev = NoPrev

NextMenu == \E rows \in MenuPages, clicked \in BOOLEAN : MenuPage(rows, clicked)

\* Every turn of the loop returns: the page reads and the pauses are bounded.
SpecMenu == InitMenu /\ [][NextMenu]_vars /\ WF_vars(NextMenu)

-----------------------------------------------------------------------------
(* The site specification: one call of crawl_metadata against a report the  *)
(* site serves page by page.                                                *)

MaxDelay == 1       \* polls a page load takes at most

\* Time is counted in ticks of half a second.
TicksPerSec == 2
AdvanceTimeout == 30 * TicksPerSec  \* wait_for_pagination_change(timeout_sec=30)
SleepStep == 1                      \* asyncio.sleep(0.5)
IdleTimeout == 5 * TicksPerSec      \* wait_for_order_details_idle(timeout_sec=5)

\* The payment ids extract_order_detail_blocks can give: their texts hold no
\* "|" (a label or form id matches [A-Za-z0-9_-]+, a surrogate is order-<n>).
PlainIds == {id \in SiteIds : Sep \notin Range(IdText(id))}

PlainBlock(id) == CHOOSE b \in SiteBlocks : b.payment_id = id

\* The pages of a report: sequences of new ids.
SitePages(ids) ==
    {pages \in SeqsUpTo(SeqsUpTo(ids, MaxPageRows) \ {<<>>}, Cardinality(ids)) :
        /\ pages # <<>>
        /\ \A i, j \in 1..Len(pages) : \A k \in 1..Len(pages[i]), l \in 1..Len(pages[j]) :
               (i # j \/ k # l) => pages[i][k] # pages[j][l]}

RECURSIVE RowsThrough(_, _)
RowsThrough(pages, k) == IF k = 0 THEN 0 ELSE RowsThrough(pages, k - 1) + Len(pages[k])

\* A report whose Next loads the next page, and one whose first page says
\* there is more and whose Next changes nothing.
PagedSites ==
    {Site(pages, RowsThrough(pages, Len(pages)), TRUE, delay) :
        pages \in SitePages(PlainIds), delay \in 0..MaxDelay}
StuckSites ==
    {Site(<<page>>, 2 * Len(page), FALSE, 0) :
        page \in SeqsUpTo(PlainIds, MaxPageRows) \ {<<>>}}
SiteInputs == PagedSites \cup StuckSites

\* The page the browser shows: the summaries and the pagination widgets of
\* the menu-item table first, those of the orders last.
SiteDom(s, k) ==
    LET through == RowsThrough(s.pages, k)
    IN  Dom(<<ShowingText(1, 1, 1),
              ShowingText(through - Len(s.pages[k]) + 1, through, s.total)>>,
            <<Widget("enabled", "visible"),
              Widget(IF through < s.total THEN "enabled" ELSE "disabled", "visible")>>,
            <<>>)

NextClick == <<"click", "next">>

\* One turn of the while loop on the page the browser shows.
SiteCrawlPage ==
    /\ \E d \in {SiteDom(site, site_page)} :
       \E current_summary \in {get_pagination_summary(d, FALSE)} :
       \E click \in {click_next_order_details_page(d, "no")} :
       \E raw_rows \in {[i \in 1..Len(site.pages[site_page]) |->
                            PlainBlock(site.pages[site_page][i])]} :
       \E turn \in {page_turn(all_rows, seen_ids, page_signatures, page_count,
                              limit, max_pages,
                              raw_rows, current_summary, FALSE, click.returned)} :
           /\ crawl_page(raw_rows, current_summary, FALSE, click.returned,
                         IF current_summary.has THEN "wait" ELSE "crawl")
           /\ log' = log \o turn.log \o (IF turn.continues THEN <<NextClick>> ELSE <<>>)
           /\ site_loading' = IF turn.continues /\ site.advances
                              THEN site.delay + 1 ELSE 0
           /\ waited' = IF turn.continues THEN 0 ELSE waited
    /\ UNCHANGED <<dom_vars, run_vars, thr_vars, site, site_page>>

\* One turn of the loop of wait_for_pagination_change: the sleep, the wait
\* for the spinners (idle ticks), the summary read and compared, and the
\* return on a change or when the deadline has passed.
WaitForPaginationChange(idle) ==
    /\ pc = "wait"
    /\ waited < AdvanceTimeout
    /\ \E shown \in {IF site_loading = 1 THEN site_page + 1 ELSE site_page} :
       \E old_summary \in {get_pagination_summary(SiteDom(site, site_page), FALSE)} :
       \E new_summary \in {get_pagination_summary(SiteDom(site, shown), FALSE)} :
           /\ site_page' = shown
           /\ site_loading' = IF site_loading > 0 THEN site_loading - 1 ELSE 0
           /\ waited' = waited + SleepStep + idle
           /\ pc' = IF \/ new_summary.has /\ (new_summary.start # old_summary.start
                                              \/ new_summary.end # old_summary.end)
                       \/ waited' >= AdvanceTimeout
                    THEN "crawl" ELSE "wait"
    /\ UNCHANGED <<store_vars, now, crawl_vars, dom_vars, run_vars, thr_vars, site, log>>

\* The final verification on the page the browser shows.
SiteCrawlVerify ==
    /\ \E final_summary \in {get_pagination_summary(SiteDom(site, site_page), FALSE)} :
           /\ crawl_verify(final_summary)
           /\ log' = log \o verify_log(final_summary, Len(all_rows))
    /\ UNCHANGED <<dom_vars, run_vars, thr_vars, site, site_page, site_loading, waited>>

InitSite ==
    /\ block = S4Block(10000, 12888, FALSE)
    /\ state = <<>>
    /\ pc = "crawl"
    /\ now = 1
    /\ IdleStore
    /\ \E a \in ArgInputs : limit = a[1] /\ max_pages = a[2]
    /\ all_rows = <<>>
    /\ seen_ids = {}
    /\ page_signatures = {}
    /\ page_count = 0
    /\ events = {}
    /\ last_total = None
    /\ accepted_sigs = <<>>
    /\ interrupted = {}
    /\ prev = NoPrev
    /\ IdleDom
    /\ site \in SiteInputs
    /\ site_page = 1
    /\ site_loading = 0
    /\ waited = 0
    /\ log = <<>>
    /\ IdleRun
    /\ IdleThrottle

NextSite ==
    \/ SiteCrawlPage
    \/ \E idle \in {0, IdleTimeout} : WaitForPaginationChange(idle)
    \/ SiteCrawlVerify

SpecSite == InitSite /\ [][NextSite]_vars

-----------------------------------------------------------------------------
(* The orchestrator specification: run() calls run_once and starts it again *)
(* after an AUTH_BLOCKED failure.                                           *)

MaxRestarts == 2    \* --auth-block-restarts is -1..MaxRestarts
MaxCooldown == 2    \* --auth-block-cooldown-sec is 0 or MaxCooldown

\* What run_once can raise.
AuthBlocked == Exc("RuntimeError", <<"AUTH_BLOCKED", "Cloudflare challenge did not clear.">>)
DetailBlocked ==
    Exc("RuntimeError", <<"AUTH_BLOCKED", "Cloudflare challenge did not clear during detail extraction.">>)
AuthFailedNoCredentials ==
    Exc("RuntimeError", <<"AUTH_FAILED", "no usable credentials found in env file.">>)
AuthFailedLogin ==
    Exc("RuntimeError", <<"AUTH_FAILED", "credential login did not reach Toast reports dashboard.">>)
AuthFailedManual == Exc("TimeoutError", <<"AUTH_FAILED", "manual login timeout.">>)
ProfileLocked == Exc("RuntimeError", <<"PROFILE_LOCKED", "close any Chrome/Chromium">>)
IoError == Exc("OSError", <<"No space left on device">>)
RunOnceErrors ==
    {AuthBlocked, DetailBlocked, AuthFailedNoCredentials, AuthFailedLogin,
     AuthFailedManual, ProfileLocked, IoError}

Max(a, b) == IF a >= b THEN a ELSE b
Min(a, b) == IF a <= b THEN a ELSE b

\* total_attempts = max(0, args.auth_block_restarts) + 1
total_attempts(flags) == Max(0, flags.auth_block_restarts) + 1

\* Mutant: any RuntimeError starts run_once again.
restarts_on_any(exc, n, flags) ==
    exc.class = "RuntimeError" /\ n < total_attempts(flags)

\* The except clause of run: the failures after which run_once is started
\* again.
restarts_on(exc, n, flags) ==
    /\ exc.class = "RuntimeError"
    /\ InMessage("AUTH_BLOCKED", exc)
    /\ n < total_attempts(flags)

\* What run and logout_and_reset_profile log and do.
Step(ev, n, exc) == [ev |-> ev, n |-> n, exc |-> exc]
RunOnceCall(n, exc) == Step("run_once", n, exc)
RunRestart(n) == Step("run_restart", n, NoExc)
CooldownSleep(seconds) == Step("sleep", seconds, NoExc)
Logout == Step("logout", 0, NoExc)
ProfileReset == Step("profile_reset", 0, NoExc)

\* The steps between a run_restart event and the next attempt, in order:
\* the cooldown sleep of run, then logout_and_reset_profile.
recovery_steps(flags, jitter) ==
    LET cooldown == Max(0, flags.auth_block_cooldown_sec)
    IN  (IF cooldown # 0 THEN <<CooldownSleep(cooldown + jitter)>> ELSE <<>>)
        \o <<Logout>>
        \o (IF flags.reset_profile_on_auth_block THEN <<ProfileReset>> ELSE <<>>)

\* run_once returns: run returns.
RunOnceReturns ==
    /\ pc = "run"
    /\ log' = Append(log, RunOnceCall(attempt, NoExc))
    /\ profile' = "used"
    /\ pc' = "returned"
    /\ UNCHANGED <<not_run_vars, context, args, attempt, error, causes>>

\* run_once raises: run starts it again after the recovery steps, or lets
\* the exception out.  The jitter is any of 0..min(30, cooldown); the
\* profile wipe can fail half-way (the error is logged and swallowed).
RunOnceRaises(exc, jitter, wiped) ==
    /\ pc = "run"
    /\ jitter <= Min(30, Max(0, args.auth_block_cooldown_sec))
    /\ IF restarts_on(exc, attempt, args)
       THEN /\ log' = log \o <<RunOnceCall(attempt, exc), RunRestart(attempt)>>
                          \o recovery_steps(args, jitter)
            /\ profile' = IF args.reset_profile_on_auth_block
                          THEN (IF wiped THEN "fresh" ELSE "damaged")
                          ELSE "used"
            /\ attempt' = attempt + 1
            /\ UNCHANGED <<pc, error>>
       ELSE /\ log' = Append(log, RunOnceCall(attempt, exc))
            /\ profile' = "used"
            /\ error' = exc
            /\ pc' = "raised"
            /\ UNCHANGED attempt
    /\ UNCHANGED <<not_run_vars, context, args, causes>>

RunFlags ==
    [auth_block_restarts : -1..MaxRestarts,
     auth_block_cooldown_sec : {0, MaxCooldown},
     reset_profile_on_auth_block : BOOLEAN]

InitRun ==
    /\ block = S4Block(10000, 12888, FALSE)
    /\ state = <<>>
    /\ pc = "run"
    /\ now = 1
    /\ IdleStore
    /\ IdleCrawl
    /\ IdleDom
    /\ IdleSite
    /\ IdleThrottle
    /\ args \in RunFlags
    /\ attempt = 1
    /\ error = NoExc
    /\ profile \in {"used", "fresh"}
    /\ context = "none"
    /\ causes = {}

NextRun ==
    \/ RunOnceReturns
    \/ \E exc \in RunOnceErrors, jitter \in {0, MaxCooldown}, wiped \in BOOLEAN :
           RunOnceRaises(exc, jitter, wiped)

SpecRun == InitRun /\ [][NextRun]_vars

-----------------------------------------------------------------------------
(* The run_once specification: the steps of run_once between the launch of  *)
(* the browser context and its exits, under the restart loop of run.        *)

\* Mutant: leaving the async_playwright block leaves the browser as it is.
playwright_exit_leak(ctx) == ctx

\* Leaving 'async with async_playwright()', by return or by exception, stops
\* the driver and with it the browser it launched.
playwright_exit(ctx) == IF ctx = "open" THEN "closed" ELSE ctx

\* await context.close()
context_close(ctx) == "closed"

ContextLaunch(n) == Step("launch_persistent_context", n, NoExc)

\* An exception leaves run_once through the async_playwright block.
once_raises(exc, ctx) ==
    /\ context' = playwright_exit(ctx)
    /\ error' = exc
    /\ pc' = "once_except"

\* run_once returns through the async_playwright block.
once_returns(ctx) ==
    /\ context' = playwright_exit(ctx)
    /\ pc' = "once_returned"
    /\ UNCHANGED error

\* p.chromium.launch_persistent_context: it fails on a profile that a
\* running browser holds.
OnceLaunch(locked) ==
    /\ pc = "once_launch"
    /\ log' = Append(log, ContextLaunch(attempt))
    /\ IF locked \/ context = "open"
       THEN once_raises(ProfileLocked, context)
       ELSE /\ context' = "open"
            /\ pc' = "once_auth"
            /\ UNCHANGED error
    /\ UNCHANGED <<not_run_vars, args, attempt, profile, causes>>

\* ensure_authenticated returns or raises.
OnceAuth(exc) ==
    /\ pc = "once_auth"
    /\ IF exc = NoExc
       THEN /\ pc' = IF args.refresh_metadata \/ ~args.skip_metadata
                     THEN "once_crawl" ELSE "once_final"
            /\ UNCHANGED <<context, error>>
       ELSE once_raises(exc, context)
    /\ UNCHANGED <<not_run_vars, log, args, attempt, profile, causes>>

\* crawl_metadata, merge_metadata, save_state and save_progress; then the
\* menu summary crawl is announced.
OnceCrawl(exc) ==
    /\ pc = "once_crawl"
    /\ IF exc # NoExc
       THEN /\ once_raises(exc, context)
            /\ UNCHANGED log
       ELSE /\ log' = log \o <<Step("save_state", attempt, NoExc),
                                Step("menu_summary_crawl_start", attempt, NoExc)>>
            /\ pc' = "once_menu"
            /\ UNCHANGED <<context, error>>
    /\ UNCHANGED <<not_run_vars, args, attempt, profile, causes>>

NavTimeout == Exc("TimeoutError", <<"Timeout 45000ms exceeded.">>)

\* Mutant: an exception that says AUTH_BLOCKED is let through.
menu_caught_unless_blocked(exc) == ~InMessage("AUTH_BLOCKED", exc)

\* except Exception as exc
menu_caught(exc) == exc.class \in {"RuntimeError", "TimeoutError", "OSError"}

\* The try block around the menu summary crawl: crawl_menu_item_summary and
\* save_menu_summary, either of which may raise; then the metadata_only exit.
OnceMenu(exc, save_exc) ==
    /\ pc = "once_menu"
    /\ \E raised \in {IF exc # NoExc THEN exc ELSE save_exc} :
           IF raised # NoExc /\ ~menu_caught(raised)
           THEN /\ once_raises(raised, context)
                /\ UNCHANGED log
           ELSE /\ log' = log
                       \o (IF raised # NoExc
                           THEN <<Step("menu_summary_crawl_failed", attempt, raised)>>
                           ELSE <<Step("save_menu_summary", attempt, NoExc),
                                  Step("menu_summary_crawl_done", attempt, NoExc)>>)
                       \o (IF args.metadata_only
                           THEN <<Step("run_exit", attempt, NoExc)>> ELSE <<>>)
                /\ IF args.metadata_only
                   THEN once_returns(context_close(context))
                   ELSE /\ pc' = "once_final"
                        /\ UNCHANGED <<context, error>>
    /\ UNCHANGED <<not_run_vars, args, attempt, profile, causes>>

\* save_progress, run_complete and context.close().
OnceComplete(exc) ==
    /\ pc = "once_final"
    /\ IF exc # NoExc
       THEN /\ once_raises(exc, context)
            /\ UNCHANGED log
       ELSE /\ log' = Append(log, Step("run_complete", attempt, NoExc))
            /\ once_returns(context_close(context))
    /\ UNCHANGED <<not_run_vars, args, attempt, profile, causes>>

\* The except clause of run: run_once is started again after AUTH_BLOCKED,
\* any other exception goes out.
OnceExcept ==
    /\ pc = "once_except"
    /\ IF restarts_on(error, attempt, args)
       THEN /\ log' = Append(log, RunRestart(attempt))
            /\ attempt' = attempt + 1
            /\ pc' = "once_launch"
       ELSE /\ pc' = "once_raised"
            /\ UNCHANGED <<log, attempt>>
    /\ UNCHANGED <<not_run_vars, args, error, profile, context, causes>>

OnceFlags ==
    [auth_block_restarts : {0, MaxRestarts},
     refresh_metadata : BOOLEAN, skip_metadata : BOOLEAN, metadata_only : BOOLEAN]

InitOnce ==
    /\ block = S4Block(10000, 12888, FALSE)
    /\ state = <<>>
    /\ pc = "once_launch"
    /\ now = 1
    /\ IdleStore
    /\ IdleCrawl
    /\ IdleDom
    /\ IdleSite
    /\ IdleThrottle
    /\ args \in OnceFlags
    /\ attempt = 1
    /\ error = NoExc
    /\ profile = "used"
    /\ context = "none"
    /\ causes = {}

NextOnce ==
    \/ \E locked \in BOOLEAN : OnceLaunch(locked)
    \/ \E exc \in {NoExc, AuthBlocked, AuthFailedNoCredentials, AuthFailedLogin,
                   AuthFailedManual} : OnceAuth(exc)
    \/ \E exc \in {NoExc, AuthBlocked, IoError} : OnceCrawl(exc)
    \/ \E exc \in {NoExc, AuthBlocked, NavTimeout}, save_exc \in {NoExc, IoError} :
           OnceMenu(exc, save_exc)
    \/ \E exc \in {NoExc, IoError} : OnceComplete(exc)
    \/ OnceExcept

SpecOnce == InitOnce /\ [][NextOnce]_vars

-----------------------------------------------------------------------------
(* The authentication specification: one call of ensure_authenticated.  The *)
(* site decides whether a challenge shows and clears within                 *)
(* challenge_timeout_sec, and whether the dashboard marker shows within     *)
(* timeout_sec.                                                             *)

MaxAuthAttempts == 2    \* --auth-max-attempts is 0..MaxAuthAttempts

ChallengeDetected(phase) == Step("auth_challenge_detected", phase, NoExc)
AuthenticatedCheck(found) == Step("is_authenticated", IF found THEN 1 ELSE 0, NoExc)
ManualLoginWait == Step("manual_login_wait", 0, NoExc)
AuthAttemptStart(n) == Step("auth_attempt_start", n, NoExc)
AuthAttemptError(n) == Step("auth_attempt_error", n, NoExc)
AuthAttemptTimeout(n) == Step("auth_attempt_timeout", n, NoExc)
AuthSuccess(n) == Step("auth_success", n, NoExc)

\* Mutant: without credentials the manual login is waited for, allowed or not.
after_check_manual(flags) ==
    IF ~flags.credentials THEN "auth_manual" ELSE "auth_attempt"

\* Where ensure_authenticated goes when the session is not authenticated.
after_check(flags) ==
    IF ~flags.credentials
    THEN (IF flags.allow_manual_login THEN "auth_manual" ELSE "auth_raised")
    ELSE "auth_attempt"

\* The navigation and the initial challenge: none, one that clears within
\* challenge_timeout_sec, or one that stays.
AuthNavigate(challenge) ==
    /\ pc = "auth_nav"
    /\ log' = IF challenge = "none" THEN log ELSE Append(log, ChallengeDetected(0))
    /\ IF challenge = "stays"
       THEN /\ causes' = causes \cup {"challenge_initial"}
            /\ error' = AuthBlocked
            /\ pc' = "auth_raised"
       ELSE /\ pc' = "auth_check"
            /\ UNCHANGED <<causes, error>>
    /\ UNCHANGED <<not_run_vars, args, attempt, profile, context>>

\* is_authenticated, and the branch on the credentials.
AuthCheck(found) ==
    /\ pc = "auth_check"
    /\ log' = Append(log, AuthenticatedCheck(found))
    /\ IF found
       THEN pc' = "auth_returned" /\ UNCHANGED <<attempt, error>>
       ELSE /\ pc' = after_check(args)
            /\ attempt' = IF pc' = "auth_attempt" THEN 1 ELSE attempt
            /\ error' = IF pc' = "auth_raised" THEN AuthFailedNoCredentials ELSE error
    /\ UNCHANGED <<not_run_vars, args, profile, context, causes>>

\* The manual-login polling loop: the marker shows within timeout_sec or not.
AuthManualWait(found) ==
    /\ pc = "auth_manual"
    /\ log' = Append(log, ManualLoginWait)
    /\ IF found
       THEN pc' = "auth_returned" /\ UNCHANGED error
       ELSE pc' = "auth_raised" /\ error' = AuthFailedManual
    /\ UNCHANGED <<not_run_vars, args, attempt, profile, context, causes>>

\* One credential attempt: the login form is filled (this can raise, which
\* is logged), a challenge may show and stay, and the marker shows within
\* timeout_sec or not.  After the last attempt AUTH_FAILED is raised.
AuthAttempt(login_raised, challenge, found) ==
    /\ pc = "auth_attempt"
    /\ LET failed == challenge = "stays" \/ ~found
           last == attempt >= Max(1, args.max_attempts)
       IN  /\ log' = log \o <<AuthAttemptStart(attempt)>>
                         \o (IF login_raised THEN <<AuthAttemptError(attempt)>> ELSE <<>>)
                         \o (IF challenge # "none"
                             THEN <<ChallengeDetected(attempt)>> ELSE <<>>)
                         \o (IF challenge = "stays" THEN <<>>
                             ELSE IF found THEN <<AuthSuccess(attempt)>>
                             ELSE <<AuthAttemptTimeout(attempt)>>)
           /\ causes' = IF challenge = "stays" THEN causes \cup {"challenge_post_submit"}
                        ELSE IF ~found THEN causes \cup {"marker_missing"}
                        ELSE causes
           /\ pc' = IF ~failed THEN "auth_returned"
                    ELSE IF last THEN "auth_raised" ELSE "auth_attempt"
           /\ error' = IF failed /\ last THEN AuthFailedLogin ELSE error
           /\ attempt' = IF failed /\ ~last THEN attempt + 1 ELSE attempt
    /\ UNCHANGED <<not_run_vars, args, profile, context>>

AuthFlags ==
    [credentials : BOOLEAN, allow_manual_login : BOOLEAN,
     max_attempts : 0..MaxAuthAttempts]

InitAuth ==
    /\ block = S4Block(10000, 12888, FALSE)
    /\ state = <<>>
    /\ pc = "auth_nav"
    /\ now = 1
    /\ IdleStore
    /\ IdleCrawl
    /\ IdleDom
    /\ IdleSite
    /\ IdleThrottle
    /\ args \in AuthFlags
    /\ attempt = 0
    /\ error = NoExc
    /\ profile = "used"
    /\ context = "none"
    /\ causes = {}

NextAuth ==
    \/ \E challenge \in {"none", "clears", "stays"} : AuthNavigate(challenge)
    \/ \E found \in BOOLEAN : AuthCheck(found)
    \/ \E found \in BOOLEAN : AuthManualWait(found)
    \/ \E login_raised \in BOOLEAN, challenge \in {"none", "clears", "stays"},
          found \in BOOLEAN : AuthAttempt(login_raised, challenge, found)

SpecAuth == InitAuth /\ [][NextAuth]_vars

-----------------------------------------------------------------------------
(* The login specification: one call of ensure_authenticated, poll by poll. *)
(* dom is the page the browser shows, waited the time the running polling   *)
(* loop has taken, in ticks of 200 ms.  The site changes the page at every  *)
(* navigation, at the submit of the login form and during every sleep.      *)

MaxAuthTimeout == 2         \* --auth-timeout-sec is 0 or MaxAuthTimeout
MaxChallengeTimeout == 2    \* --challenge-timeout-sec is 0 or MaxChallengeTimeout
PollSleep == 5              \* asyncio.sleep(1)
PromptPause == 4            \* page.wait_for_timeout(800)

PasswordInput == "input[type='password']"
LoginButton == "button:has-text('Log in')"
ReportsLink == "a[href*='reports']"
ReportsUrl == "restaurants/admin/reports"
LoginUrl == "account/login"
OtherUrl == "account/home"

\* A page: its URL, the selectors that match an element, and whether it is
\* the Cloudflare challenge.
LoginPage(url, shown, challenge) == [url |-> url, shown |-> shown, challenge |-> challenge]
ChallengePage == LoginPage(OtherUrl, {}, TRUE)
PageStates ==
    {ChallengePage} \cup
    { LoginPage(url, shown, FALSE) :
        url \in {ReportsUrl, LoginUrl, OtherUrl},
        shown \in {{}, {PasswordInput}, {LoginButton}, {ReportsLink},
                   {PasswordInput, ReportsLink}} }

\* word in page.url.lower()
UrlHas(url, word) ==
    CASE word = "login" -> url = LoginUrl
      [] word = ReportsUrl -> url = ReportsUrl
      [] OTHER -> FALSE

is_cloudflare_challenge(page) == page.challenge

\* "login" in the URL, or one of the logged_out_markers matches
is_logged_out(page) ==
    \/ UrlHas(page.url, "login")
    \/ page.shown \cap {PasswordInput, LoginButton} # {}

\* The reports URL without a logged-out marker, or one of the
\* authenticated_markers matches.
is_authenticated(page) ==
    \/ UrlHas(page.url, ReportsUrl) /\ ~is_logged_out(page)
    \/ ReportsLink \in page.shown

\* Mutant: one attempt more than --auth-max-attempts.
attempts_allowed_more(max_attempts) == Max(1, max_attempts) + 1

\* range(1, max(1, max_attempts) + 1)
attempts_allowed(max_attempts) == Max(1, max_attempts)

\* The end of a polling loop, with the time it took.
Waited(ev, n, ticks) == [ev |-> ev, n |-> n, exc |-> NoExc, waited |-> ticks]
LoginReturned(found) == Step("ensure_authenticated", IF found THEN 1 ELSE 0, NoExc)

\* The end of a failed attempt: the next one, or AUTH_FAILED after the last.
next_attempt(lg) ==
    IF attempt >= attempts_allowed(args.max_attempts)
    THEN /\ pc' = "login_raised"
         /\ error' = AuthFailedLogin
         /\ log' = lg
         /\ UNCHANGED attempt
    ELSE /\ pc' = "login_attempt"
         /\ attempt' = attempt + 1
         /\ log' = lg
         /\ UNCHANGED error

\* page.goto(ORDER_DETAILS_URL) and the test for the initial challenge;
\* wait_for_challenge_clear with a timeout of 0 or less tests once more.
LoginNavigate(page) ==
    /\ pc = "login_nav"
    /\ dom' = page
    /\ waited' = 0
    /\ IF is_cloudflare_challenge(page)
       THEN /\ log' = Append(log, ChallengeDetected(0))
            /\ IF args.challenge_timeout_sec <= 0
               THEN pc' = "login_raised" /\ error' = AuthBlocked
               ELSE pc' = "login_challenge" /\ UNCHANGED error
       ELSE /\ pc' = "login_check"
            /\ UNCHANGED <<log, error>>
    /\ UNCHANGED <<store_vars, now, crawl_vars, dom_result, clicks, thr_vars, site,
                   site_page, site_loading, args, attempt, profile, context, causes>>

\* One turn of the loop of wait_for_challenge_clear, before the credential
\* attempts (pc login_challenge) or within one (pc login_post_challenge).
ChallengePoll(page) ==
    /\ pc \in {"login_challenge", "login_post_challenge"}
    /\ IF waited < args.challenge_timeout_sec * PollSleep
       THEN IF ~is_cloudflare_challenge(dom)
            THEN /\ pc' = IF pc = "login_challenge" THEN "login_check" ELSE "login_wait"
                 /\ log' = Append(log, Waited("challenge_wait", attempt, waited))
                 /\ waited' = 0
                 /\ UNCHANGED <<dom, attempt, error>>
            ELSE /\ waited' = waited + PollSleep
                 /\ dom' = page
                 /\ UNCHANGED <<pc, log, attempt, error>>
       ELSE /\ UNCHANGED dom
            /\ waited' = 0
            /\ IF pc = "login_challenge"
               THEN /\ pc' = "login_raised"
                    /\ error' = AuthBlocked
                    /\ log' = Append(log, Waited("challenge_wait", attempt, waited))
                    /\ UNCHANGED attempt
               ELSE next_attempt(Append(log, Waited("challenge_wait", attempt, waited)))
    /\ UNCHANGED <<store_vars, now, crawl_vars, dom_result, clicks, thr_vars, site,
                   site_page, site_loading, args, profile, context, causes>>

\* dismiss_post_login_prompts, is_authenticated, and the branch on the
\* credentials.
LoginCheck ==
    /\ pc = "login_check"
    /\ waited' = 0
    /\ IF is_authenticated(dom)
       THEN /\ pc' = "login_returned"
            /\ log' = Append(log, LoginReturned(TRUE))
            /\ UNCHANGED <<attempt, error>>
       ELSE /\ pc' = (CASE after_check(args) = "auth_manual" -> "login_manual"
                        [] after_check(args) = "auth_attempt" -> "login_attempt"
                        [] OTHER -> "login_raised")
            /\ attempt' = IF pc' = "login_attempt" THEN 1 ELSE attempt
            /\ error' = IF pc' = "login_raised" THEN AuthFailedNoCredentials ELSE error
            /\ UNCHANGED log
    /\ UNCHANGED <<store_vars, now, crawl_vars, dom_vars, thr_vars, site,
                   site_page, site_loading, args, profile, context, causes>>

\* One turn of a loop that polls is_authenticated until its deadline: the
\* manual login (pc login_manual) or a credential attempt (pc login_wait).
\* A prompt that is dismissed takes 800 ms, the sleep 1 s.
AuthPoll(prompt, page) ==
    /\ pc \in {"login_manual", "login_wait"}
    /\ IF waited < args.timeout_sec * PollSleep
       THEN \E spent \in {waited + (IF prompt THEN PromptPause ELSE 0)} :
               IF is_authenticated(dom)
               THEN /\ pc' = "login_returned"
                    /\ log' = log \o <<Waited("auth_wait", attempt, spent)>>
                                  \o (IF pc = "login_wait"
                                      THEN <<AuthSuccess(attempt)>> ELSE <<>>)
                                  \o <<LoginReturned(TRUE)>>
                    /\ waited' = 0
                    /\ UNCHANGED <<dom, attempt, error>>
               ELSE /\ waited' = spent + PollSleep
                    /\ dom' = page
                    /\ UNCHANGED <<pc, log, attempt, error>>
       ELSE /\ waited' = 0
            /\ IF pc = "login_manual"
               THEN /\ pc' = "login_raised"
                    /\ error' = AuthFailedManual
                    /\ log' = Append(log, Waited("auth_wait", attempt, waited))
                    /\ UNCHANGED <<dom, attempt>>
               ELSE /\ dom' = page
                    /\ next_attempt(log \o <<Waited("auth_wait", attempt, waited),
                                             AuthAttemptTimeout(attempt)>>)
    /\ UNCHANGED <<store_vars, now, crawl_vars, dom_result, clicks, thr_vars, site,
                   site_page, site_loading, args, profile, context, causes>>

\* The head of a credential attempt: auth_attempt_start, the login form
\* (which can raise, which is logged), and the test for a challenge.
LoginAttempt(login_raised, page) ==
    /\ pc = "login_attempt"
    /\ dom' = page
    /\ waited' = 0
    /\ LET lg == log \o <<AuthAttemptStart(attempt)>>
                     \o (IF login_raised THEN <<AuthAttemptError(attempt)>> ELSE <<>>)
       IN  IF is_cloudflare_challenge(page)
           THEN IF args.challenge_timeout_sec <= 0
                THEN next_attempt(Append(lg, ChallengeDetected(attempt)))
                ELSE /\ pc' = "login_post_challenge"
                     /\ log' = Append(lg, ChallengeDetected(attempt))
                     /\ UNCHANGED <<attempt, error>>
           ELSE /\ pc' = "login_wait"
                /\ log' = lg
                /\ UNCHANGED <<attempt, error>>
    /\ UNCHANGED <<store_vars, now, crawl_vars, dom_result, clicks, thr_vars, site,
                   site_page, site_loading, args, profile, context, causes>>

LoginFlags ==
    [credentials : BOOLEAN, allow_manual_login : BOOLEAN,
     max_attempts : {0, MaxAuthAttempts},
     timeout_sec : {0, MaxAuthTimeout},
     challenge_timeout_sec : {0, MaxChallengeTimeout}]

InitLogin ==
    /\ block = S4Block(10000, 12888, FALSE)
    /\ state = <<>>
    /\ pc = "login_nav"
    /\ now = 1
    /\ IdleStore
    /\ IdleCrawl
    /\ dom = LoginPage(OtherUrl, {}, FALSE)
    /\ dom_result = NoResult
    /\ clicks = <<>>
    /\ IdleSite
    /\ IdleThrottle
    /\ args \in LoginFlags
    /\ attempt = 0
    /\ error = NoExc
    /\ profile = "used"
    /\ context = "none"
    /\ causes = {}

NextLogin ==
    \/ \E page \in PageStates : LoginNavigate(page)
    \/ \E page \in PageStates : ChallengePoll(page)
    \/ LoginCheck
    \/ \E prompt \in BOOLEAN, page \in PageStates : AuthPoll(prompt, page)
    \/ \E login_raised \in BOOLEAN, page \in PageStates : LoginAttempt(login_raised, page)

\* The event loop runs the coroutine on.
SpecLogin == InitLogin /\ [][NextLogin]_vars /\ WF_vars(NextLogin)

-----------------------------------------------------------------------------
(* set_date_range on a report page.  The page holds, for the start and for  *)
(* the end of the range, up to three inputs: the legacy hidden input        *)
(* (#startDate, #endDate), the backing input (name reportDateStart,         *)
(* reportDateEnd) and a visible input found by its aria-label only; all are *)
(* inside #sales-payments.  locator.fill succeeds on an input or raises     *)
(* (hidden, read-only, covered).                                            *)

\* The decimal digits of a natural number, and the two-digit form.
RECURSIVE Digits(_)
Digits(n) == IF n < 10 THEN <<n>> ELSE Digits(n \div 10) \o <<n % 10>>
Pad2(n) == IF n < 10 THEN <<0, n>> ELSE Digits(n)

\* strftime("%m-%d-%Y")
to_us_date(date) ==
    [sep |-> "-", month |-> Pad2(date.month), day |-> Pad2(date.day), year |-> Digits(date.year)]

\* f"{month}/{day}/{%y}"
to_short_us_date(date) ==
    [sep |-> "/", month |-> Digits(date.month), day |-> Digits(date.day),
     year |-> Pad2(date.year % 100)]

NoValue == [sep |-> "", month |-> <<>>, day |-> <<>>, year |-> <<>>]

Sides == {"start", "end"}
InputKinds == {"legacy", "backing", "visible"}

\* config.payments.date_start_input / date_end_input in order: the kind of
\* input each selector finds and whether the selector text holds "startDate"
\* ("endDate"); the placeholder selectors find none of the three.
DateSelectors ==
    << [kind |-> "backing", short |-> FALSE], [kind |-> "legacy", short |-> TRUE],
       [kind |-> "backing", short |-> FALSE], [kind |-> "visible", short |-> FALSE],
       [kind |-> "none", short |-> FALSE],
       [kind |-> "backing", short |-> FALSE], [kind |-> "legacy", short |-> TRUE],
       [kind |-> "backing", short |-> FALSE], [kind |-> "visible", short |-> FALSE],
       [kind |-> "none", short |-> FALSE] >>

Present(page, side, kind) == kind \in InputKinds /\ page.inputs[side][kind].present

\* first_usable_locator(..., require_visible=False) finds an input
located(page, side) == \E i \in 1..Len(DateSelectors) : Present(page, side, DateSelectors[i].kind)

Requested(side) == IF side = "start" THEN args.start ELSE args.end

\* The value an input of a kind is to hold
wanted(side, kind) ==
    IF kind = "legacy" THEN to_short_us_date(Requested(side)) ELSE to_us_date(Requested(side))

SetValue(page, side, kind, value) ==
    [page EXCEPT !.inputs[side][kind].value = value, !.inputs[side][kind].assigned = TRUE]

\* The evaluate block that sets #startDate, #endDate in the short form and the
\* reportDateStart, reportDateEnd inputs in the long form, where they exist.
RECURSIVE sync_hidden(_, _)
sync_hidden(page, todo) ==
    IF todo = {} THEN page
    ELSE LET t == CHOOSE x \in todo : TRUE
             next == IF Present(page, t[1], t[2])
                     THEN SetValue(page, t[1], t[2], wanted(t[1], t[2])) ELSE page
         IN  sync_hidden(next, todo \ {t})

HiddenInputs == Sides \X {"legacy", "backing"}

\* One fill loop: each selector whose input exists is filled, with the short
\* form when the selector names startDate / endDate; a fill that raises is
\* skipped.  Gives the page and the number of fills done.
RECURSIVE fill_inputs(_, _, _, _)
fill_inputs(page, side, i, updated) ==
    IF i > Len(DateSelectors) THEN [page |-> page, updated |-> updated]
    ELSE LET sel == DateSelectors[i]
         IN  IF Present(page, side, sel.kind) /\ page.inputs[side][sel.kind].fillable
             THEN fill_inputs(SetValue(page, side, sel.kind,
                                       IF sel.short THEN to_short_us_date(Requested(side))
                                       ELSE to_us_date(Requested(side))),
                              side, i + 1, updated + 1)
             ELSE fill_inputs(page, side, i + 1, updated)

\* The scripted fallback: every input the selectors find gets its value, the
\* legacy form for an input whose id or name is startdate / enddate.
RECURSIVE set_all(_, _, _)
set_all(page, side, kinds) ==
    IF kinds = {} THEN page
    ELSE LET k == CHOOSE x \in kinds : TRUE
             next == IF Present(page, side, k) THEN SetValue(page, side, k, wanted(side, k))
                     ELSE page
         IN  set_all(next, side, kinds \ {k})

\* if updated_inputs < 2
fallback_needed(updated_inputs) == updated_inputs < 2

\* The values the date_range_values event holds
date_range_values(page) ==
    [ev |-> "date_range_values",
     startDateHidden |-> IF page.inputs["start"]["legacy"].present
                         THEN page.inputs["start"]["legacy"].value ELSE NoValue,
     endDateHidden |-> IF page.inputs["end"]["legacy"].present
                       THEN page.inputs["end"]["legacy"].value ELSE NoValue,
     startDateBacking |-> IF page.inputs["start"]["backing"].present
                          THEN page.inputs["start"]["backing"].value ELSE NoValue,
     endDateBacking |-> IF page.inputs["end"]["backing"].present
                        THEN page.inputs["end"]["backing"].value ELSE NoValue]

\* The inputs are looked up; without one of the two the function returns.
DatesLocate ==
    /\ pc = "dates_locate"
    /\ pc' = IF located(dom, "start") /\ located(dom, "end") THEN "dates_assign"
             ELSE "dates_returned"
    /\ UNCHANGED <<store_vars, now, crawl_vars, dom_vars, site_vars, run_vars, thr_vars>>

\* The hidden inputs are set by script, the two fill loops run, the scripted
\* fallback runs when fewer than two fills were done, and the hidden inputs
\* are set again.  The first and the last script may raise, which is passed
\* over; the fallback raising ends the function with its exception.
DatesAssign(sync_raises, fallback_raises, resync_raises) ==
    /\ pc = "dates_assign"
    /\ LET p1 == IF sync_raises THEN dom ELSE sync_hidden(dom, HiddenInputs)
           f1 == fill_inputs(p1, "start", 1, 0)
           f2 == fill_inputs(f1.page, "end", 1, f1.updated)
           p3 == set_all(set_all(f2.page, "start", InputKinds), "end", InputKinds)
           js_updated == located(f2.page, "start") /\ located(f2.page, "end")
       IN  /\ dom_result' = [value |-> <<f2.updated>>, raised |-> "no"]
           /\ IF fallback_needed(f2.updated)
              THEN IF fallback_raises
                   THEN /\ dom' = f2.page
                        /\ pc' = "dates_raised"
                   ELSE IF ~js_updated
                   THEN /\ dom' = p3
                        /\ pc' = "dates_returned"
                   ELSE /\ dom' = IF resync_raises THEN p3 ELSE sync_hidden(p3, HiddenInputs)
                        /\ pc' = "dates_apply"
              ELSE /\ fallback_raises = FALSE
                   /\ dom' = IF resync_raises THEN f2.page
                             ELSE sync_hidden(f2.page, HiddenInputs)
                   /\ pc' = "dates_apply"
    /\ UNCHANGED <<store_vars, now, crawl_vars, clicks, site_vars, run_vars, thr_vars>>

\* Apply: the click on the visible button, else the scripted click on a
\* button found by an id selector, else the Enter key.
DatesApply(click_raises) ==
    /\ pc = "dates_apply"
    /\ clicks' = Append(clicks,
                        IF dom.apply \in {"visible"} /\ ~click_raises THEN "click"
                        ELSE IF dom.apply \in {"visible", "hidden"} THEN "script"
                        ELSE "enter")
    /\ (click_raises => dom.apply = "visible")
    /\ pc' = "dates_log"
    /\ UNCHANGED <<store_vars, now, crawl_vars, dom, dom_result, site_vars, run_vars, thr_vars>>

\* The values are read back and logged; a read that raises is passed over.
DatesLog(read_raises) ==
    /\ pc = "dates_log"
    /\ log' = IF read_raises THEN log ELSE Append(log, date_range_values(dom))
    /\ pc' = "dates_returned"
    /\ UNCHANGED <<store_vars, now, crawl_vars, dom_vars, site, site_page, site_loading,
                   waited, run_vars, thr_vars>>

\* The inputs a report page may hold: each input absent, fillable or not; a
\* legacy input is hidden and cannot be filled.
InputStates(kind) ==
    { [present |-> FALSE, fillable |-> FALSE, value |-> NoValue, assigned |-> FALSE] }
        \cup { [present |-> TRUE, fillable |-> f, value |-> NoValue, assigned |-> FALSE] :
                 f \in (IF kind = "legacy" THEN {FALSE} ELSE BOOLEAN) }

SideInputs == { f \in [InputKinds -> UNION {InputStates(k) : k \in InputKinds}] :
                  \A k \in InputKinds : f[k] \in InputStates(k) }

ReportPages ==
    { [inputs |-> [side \in Sides |-> IF side = "start" THEN s ELSE e], apply |-> a] :
        s \in SideInputs, e \in SideInputs, a \in {"visible", "hidden", "none"} }

DateRanges ==
    { [start |-> [year |-> 2025, month |-> 11, day |-> 30],
       end |-> [year |-> 2026, month |-> 2, day |-> 6]],
      [start |-> [year |-> 2026, month |-> 2, day |-> 6],
       end |-> [year |-> 2026, month |-> 2, day |-> 6]] }

InitDates ==
    /\ block = S4Block(10000, 12888, FALSE)
    /\ state = <<>>
    /\ pc = "dates_locate"
    /\ now = 1
    /\ IdleStore
    /\ IdleCrawl
    /\ dom \in ReportPages
    /\ dom_result = NoResult
    /\ clicks = <<>>
    /\ IdleSite
    /\ IdleThrottle
    /\ args \in DateRanges
    /\ attempt = 0
    /\ error = NoExc
    /\ profile = "used"
    /\ context = "none"
    /\ causes = {}

NextDates ==
    \/ DatesLocate
    \/ \E sync_raises, fallback_raises, resync_raises \in BOOLEAN :
          DatesAssign(sync_raises, fallback_raises, resync_raises)
    \/ \E click_raises \in BOOLEAN : DatesApply(click_raises)
    \/ \E read_raises \in BOOLEAN : DatesLog(read_raises)

SpecDates == InitDates /\ [][NextDates]_vars

-----------------------------------------------------------------------------
(* The detail specification: one call of process_details.  Every pending    *)
(* payment id gets a run_one task; the tasks share the semaphore, the       *)
(* rate lock, the throttle and the state.  The clock is in milliseconds     *)
(* here, and throttle_multiplier in millionths.  save_state has no await in *)
(* it: no task runs while it writes.                                        *)

MaxDetails == 3         \* pending payment ids
MaxWorkers == 2         \* --workers is 0 (one worker runs) or MaxWorkers
MaxClock == 2000        \* navigations are not waited for past this time
NavStep == 1000         \* the clock moves on by this while pages load

StartMinInterval == 700 \* --detail-start-min-interval-ms
MinInterval == 100      \* int(max(100, ...))

Status429 == Exc("RuntimeError", <<"paymentdetails_request_failed", "status=429", "body=">>)
Status403 == Exc("RuntimeError", <<"paymentdetails_request_failed", "status=403", "body=">>)
Status500 == Exc("RuntimeError", <<"paymentdetails_request_failed", "status=500", "body=">>)
DetailErrors == {DetailBlocked, Status429, Status403, Status500}

\* the test that guards the throttle block of run_one
is_throttle(exc) ==
    \/ InMessage("AUTH_BLOCKED", exc)
    \/ InMessage("status=429", exc)
    \/ InMessage("status=403", exc)

\* Mutant: every error is raised again.
reraised_always(exc) == TRUE

\* if "AUTH_BLOCKED" in message: raise
reraised(exc) == InMessage("AUTH_BLOCKED", exc)

\* Mutant: the multiplier grows by 1.2 from a floor of 1.0.
backoff_multiplier_slow(m) ==
    Min(8 * MultScale, Max(MultScale, (m * 120) \div 100))

\* min(8.0, max(1.5, throttle_multiplier * 1.65))
backoff_multiplier(m) ==
    Min(8 * MultScale, Max((15 * MultScale) \div 10, (m * 165) \div 100))

\* min(120.0, float(2 ** min(throttle_events, 7))), in milliseconds
cooldown_base(n) == Min(120, 2 ^ Min(n, 7)) * 1000

\* Mutant: a success halves the multiplier, with no floor.
relaxed_multiplier_half(m) == m \div 2

\* max(1.0, round(throttle_multiplier * 0.9, 3)) when above 1.0
relaxed_multiplier(m) ==
    IF m > MultScale
    THEN Max(MultScale, (((m * 9) \div 10 + 500) \div 1000) * 1000)
    ELSE m

\* Mutant: the spacing ignores the multiplier and has no floor.
interval_ms_flat(jitter, m) == jitter \div 2

\* int(max(100, interval_ms * max(1.0, throttle_multiplier)))
interval_ms(jitter, m) ==
    Max(MinInterval, (jitter * (Max(MultScale, m) \div 1000)) \div 1000)

\* jitter_ms(low, high): the ends of the range stand for it
jitter_ms(low, high) == {Max(0, low), Max(Max(0, low), high)}

\* jitter_ms(max(0, int(base * 0.8)), max(0, int(base * 1.3)))
IntervalJitters ==
    jitter_ms(Max(0, (args.detail_start_min_interval_ms * 8) \div 10),
              Max(0, (args.detail_start_min_interval_ms * 13) \div 10))

\* Mutant: the semaphore admits one task more.
semaphore_free_loose(holding, workers) == holding <= Max(1, workers)

\* asyncio.Semaphore(max(1, workers)) has a slot left
semaphore_free(holding, workers) == holding < Max(1, workers)

\* A run_one task: where it is, when its sleep ends, and how often it has
\* opened and closed a page.
Task(at, wake, opened, closed) ==
    [pc |-> at, wake |-> wake, opened |-> opened, closed |-> closed]
Moved(p, at, wake) == [tasks EXCEPT ![p].pc = at, ![p].wake = wake]
PageOpened(ts, p) == [ts EXCEPT ![p].opened = @ + 1]
PageClosed(ts, p) == [ts EXCEPT ![p].closed = @ + 1]
Stamp(ev, p, exc, m, until, interval) ==
    [ev |-> ev, n |-> p, exc |-> exc, at |-> now, multiplier |-> m,
     until |-> until, interval |-> interval]
GateEnter(p) == Stamp("gate_enter", p, NoExc, throttle_multiplier, throttle_until, 0)
Launch(p, interval) == Stamp("launch", p, NoExc, throttle_multiplier, throttle_until, interval)
DetailDone(p, m) == Stamp("detail_done", p, NoExc, m, throttle_until, 0)
DetailError(p, exc, m, until) == Stamp("detail_error", p, exc, m, until, 0)

\* The record of a pending payment id, and the detail a page yields.
DetailOf(b) == map_detail_payload(b.payload, normalize_metadata_fields(b.metadata))
SampleDetail == DetailOf(S4Block(10000, 12888, FALSE))
\* Record 1 holds the incomplete detail of an earlier attempt, the others
\* have not been tried.
PendingRecord(p) ==
    IF p = 1
    THEN [legacy_record(<<>>, LegacyRow(p)) EXCEPT
             !.attempts = 1, !.data = [SampleDetail EXCEPT !.complete = FALSE]]
    ELSE legacy_record(<<>>, LegacyRow(p))

\* run_one, success: the record update under the lock
detail_ok_record(row, d, t) ==
    [row EXCEPT !.attempts = @ + 1,
                !.data = d,
                !.complete = d.complete,
                !.extracted_at = t,
                !.last_error = <<>>,
                !.parsed_url = ORDER_DETAILS_URL]

\* run_one, failure: the record update under the lock
detail_err_record(row, message, t) ==
    [row EXCEPT !.attempts = @ + 1,
                !.last_error = message,
                !.complete = FALSE,
                !.extracted_at = t]

Holding == {p \in DOMAIN tasks : tasks[p].pc \notin {"pending", "done", "raised"}}
InRateLock == {p \in DOMAIN tasks : tasks[p].pc \in {"throttle_sleep", "pace_sleep"}}
Sleeping == {p \in DOMAIN tasks : tasks[p].pc \in {"throttle_sleep", "pace_sleep", "post_detail"}}

\* the end of the rate-locked block: next_start_at is set and the page goes
\* to the payment
launch(p, jitter, lg) ==
    \E interval \in {interval_ms(jitter, throttle_multiplier)} :
        /\ next_start_at' = now + interval
        /\ tasks' = Moved(p, "navigating", 0)
        /\ log' = Append(lg, Launch(p, interval))

\* wait_for = max(0.0, next_start_at - now)
pace(p, jitter, lg) ==
    LET wait_for == Max(0, next_start_at - now)
    IN  IF wait_for > 0
        THEN /\ tasks' = Moved(p, "pace_sleep", now + wait_for)
             /\ log' = lg
             /\ UNCHANGED next_start_at
        ELSE launch(p, jitter, lg)

\* async with semaphore, and context.new_page()
Acquire(p) ==
    /\ pc = "details"
    /\ p \in DOMAIN tasks
    /\ tasks[p].pc = "pending"
    /\ \A q \in DOMAIN tasks : tasks[q].pc = "pending" => p <= q
    /\ semaphore_free(Cardinality(Holding), args.workers)
    /\ tasks' = PageOpened(Moved(p, "rate_lock", 0), p)
    /\ UNCHANGED <<store_vars, now, crawl_vars, dom_vars, site_vars, run_vars, pc,
                   next_start_at, throttle_multiplier, throttle_until, throttle_events>>

\* async with rate_lock: global_wait = max(0.0, throttle_until - now).  The
\* lock goes to its waiters in the order they came, which is the order they
\* took the semaphore in.
EnterGate(p, jitter) ==
    /\ pc = "details"
    /\ p \in DOMAIN tasks
    /\ tasks[p].pc = "rate_lock"
    /\ \A q \in DOMAIN tasks : tasks[q].pc = "rate_lock" => p <= q
    /\ InRateLock = {}
    /\ LET global_wait == Max(0, throttle_until - now)
           lg == Append(log, GateEnter(p))
       IN  IF global_wait > 0
           THEN /\ tasks' = Moved(p, "throttle_sleep", now + global_wait)
                /\ log' = lg
                /\ UNCHANGED next_start_at
           ELSE pace(p, jitter, lg)
    /\ UNCHANGED <<store_vars, now, crawl_vars, dom_vars, run_vars, pc,
                   site, site_page, site_loading, waited,
                   throttle_multiplier, throttle_until, throttle_events>>

\* asyncio.sleep(global_wait) is over
WakeThrottle(p, jitter) ==
    /\ pc = "details"
    /\ p \in DOMAIN tasks
    /\ tasks[p].pc = "throttle_sleep"
    /\ now >= tasks[p].wake
    /\ pace(p, jitter, log)
    /\ UNCHANGED <<store_vars, now, crawl_vars, dom_vars, run_vars, pc,
                   site, site_page, site_loading, waited,
                   throttle_multiplier, throttle_until, throttle_events>>

\* asyncio.sleep(wait_for) is over
WakePace(p, jitter) ==
    /\ pc = "details"
    /\ p \in DOMAIN tasks
    /\ tasks[p].pc = "pace_sleep"
    /\ now >= tasks[p].wake
    /\ launch(p, jitter, log)
    /\ UNCHANGED <<store_vars, now, crawl_vars, dom_vars, run_vars, pc,
                   site, site_page, site_loading, waited,
                   throttle_multiplier, throttle_until, throttle_events>>

\* extract_detail_payload returns: the record is updated and the state
\* saved, the multiplier relaxes, and the task pauses (human_pause,
\* post_detail) before it closes its page.
DetailSucceeds(p, pause) ==
    /\ pc = "details"
    /\ p \in DOMAIN tasks
    /\ tasks[p].pc = "navigating"
    /\ state' = Put(state, p, detail_ok_record(Get(state, p), SampleDetail, now))
    /\ fs' = [fs EXCEPT ![StatePath] = WholeFile(state_payload(state'))]
    /\ throttle_multiplier' = relaxed_multiplier(throttle_multiplier)
    /\ log' = Append(log, DetailDone(p, throttle_multiplier'))
    /\ tasks' = Moved(p, "post_detail", now + pause)
    /\ UNCHANGED <<block, save_pc, save_payload, committed,
                   now, crawl_vars, dom_vars, run_vars, pc,
                   site, site_page, site_loading, waited,
                   next_start_at, throttle_until, throttle_events>>

\* human_pause is over, and the page is closed
WakePause(p) ==
    /\ pc = "details"
    /\ p \in DOMAIN tasks
    /\ tasks[p].pc = "post_detail"
    /\ now >= tasks[p].wake
    /\ tasks' = PageClosed(Moved(p, "done", 0), p)
    /\ UNCHANGED <<store_vars, now, crawl_vars, dom_vars, site_vars, run_vars, pc,
                   next_start_at, throttle_multiplier, throttle_until, throttle_events>>

\* extract_detail_payload raises: the record is updated, the state saved
\* and the error logged; a throttle error backs the throttle off; the page
\* is closed; AUTH_BLOCKED is raised again, out of gather and out of
\* process_details.
DetailFails(p, exc, jitter) ==
    /\ pc = "details"
    /\ p \in DOMAIN tasks
    /\ tasks[p].pc = "navigating"
    /\ state' = Put(state, p, detail_err_record(Get(state, p), exc.message, now))
    /\ fs' = [fs EXCEPT ![StatePath] = WholeFile(state_payload(state'))]
    /\ IF is_throttle(exc)
       THEN /\ throttle_events' = throttle_events + 1
            /\ throttle_multiplier' = backoff_multiplier(throttle_multiplier)
            /\ throttle_until' =
                   Max(throttle_until, now + cooldown_base(throttle_events') + jitter)
       ELSE UNCHANGED <<throttle_events, throttle_multiplier, throttle_until>>
    /\ log' = Append(log, DetailError(p, exc, throttle_multiplier', throttle_until'))
    /\ IF reraised(exc)
       THEN /\ tasks' = PageClosed(Moved(p, "raised", 0), p)
            /\ pc' = "details_raised"
            /\ error' = exc
       ELSE /\ tasks' = PageClosed(Moved(p, "done", 0), p)
            /\ UNCHANGED <<pc, error>>
    /\ UNCHANGED <<block, save_pc, save_payload, committed,
                   now, crawl_vars, dom_vars, args, attempt, profile, context, causes,
                   site, site_page, site_loading, waited, next_start_at>>

\* asyncio.gather returns: every task has ended
DetailsReturn ==
    /\ pc = "details"
    /\ \A p \in DOMAIN tasks : tasks[p].pc = "done"
    /\ pc' = "details_returned"
    /\ UNCHANGED <<store_vars, now, crawl_vars, ext_vars>>

\* Time passes: up to the end of the next sleep, or by NavStep while a page
\* loads.  No sleep is overslept.
Advance(d) ==
    /\ pc = "details"
    /\ d > 0
    /\ \A p \in Sleeping : tasks[p].wake >= now + d
    /\ \/ \E p \in Sleeping : tasks[p].wake = now + d
       \/ now + d <= MaxClock /\ \E p \in DOMAIN tasks : tasks[p].pc = "navigating"
    /\ now' = now + d
    /\ UNCHANGED <<store_vars, crawl_vars, ext_vars, pc>>

\* process_details is called with n pending records in the state and the
\* state file.
details_called(n, flags) ==
    /\ block = S4Block(10000, 12888, FALSE)
    /\ state = [p \in 1..n |-> PendingRecord(p)]
    /\ fs = [path \in Paths |->
                IF path = StatePath THEN WholeFile(state_payload(state)) ELSE Missing]
    /\ save_pc = "idle"
    /\ save_payload = <<>>
    /\ committed = Missing
    /\ pc = "details"
    /\ now = NavStep
    /\ IdleCrawl
    /\ IdleDom
    /\ IdleSite
    /\ args = flags
    /\ attempt = 0
    /\ error = NoExc
    /\ profile = "used"
    /\ context = "none"
    /\ causes = {}
    /\ tasks = [p \in 1..n |-> Task("pending", 0, 0, 0)]
    /\ next_start_at = 0
    /\ throttle_multiplier = MultScale
    /\ throttle_until = 0
    /\ throttle_events = 0

DetailFlags(bases) ==
    [workers : {0, MaxWorkers}, detail_start_min_interval_ms : bases]

InitThrottle ==
    \E flags \in DetailFlags({StartMinInterval}) : details_called(MaxDetails, flags)

NextThrottle ==
    \/ \E p \in 1..MaxDetails : Acquire(p)
    \/ \E p \in 1..MaxDetails, jitter \in IntervalJitters : EnterGate(p, jitter)
    \/ \E p \in 1..MaxDetails, jitter \in IntervalJitters : WakeThrottle(p, jitter)
    \/ \E p \in 1..MaxDetails, jitter \in IntervalJitters : WakePace(p, jitter)
    \/ \E p \in 1..MaxDetails, pause \in jitter_ms(500, 1500) : DetailSucceeds(p, pause)
    \/ \E p \in 1..MaxDetails : WakePause(p)
    \/ \E p \in 1..MaxDetails, exc \in DetailErrors, jitter \in jitter_ms(0, 1500) :
           DetailFails(p, exc, jitter)
    \/ DetailsReturn
    \/ \E d \in {NavStep} \cup {tasks[p].wake - now : p \in Sleeping} : Advance(d)

SpecThrottle == InitThrottle /\ [][NextThrottle]_vars

\* The pacing specification: process_details with one record fewer, over
\* small and default --detail-start-min-interval-ms, and with the event loop
\* running every task that is ready.
SmallInterval == 50

InitPace ==
    \E flags \in DetailFlags({SmallInterval, StartMinInterval}) :
        details_called(MaxDetails - 1, flags)

SpecPace == InitPace /\ [][NextThrottle]_vars /\ WF_vars(NextThrottle)

-----------------------------------------------------------------------------
(* The state-file specification: load_state and save_state with the JSON    *)
(* text between them.  A file's recs are what json.loads reads from the     *)
(* text json.dumps wrote.                                                   *)

\* JSON values.
JNull == [json |-> "null"]
JStr(text) == [json |-> "string", v |-> text]
JBool(b) == [json |-> IF b THEN "true" ELSE "false"]
JInt(n) == [json |-> "number", neg |-> n < 0, whole |-> Abs(n), frac |-> 0, point |-> FALSE]
JFloat(cents) ==
    [json |-> "number", neg |-> cents < 0, whole |-> Abs(cents) \div 100,
     frac |-> Abs(cents) % 100, point |-> TRUE]
JObj(members) == [json |-> "object", v |-> members]

MoneyFields == {"discount", "subtotal", "tax", "tip", "gratuity", "total"}
IntFields == {"check_number"}

\* json.dumps of a float-or-None and of an int-or-None
json_float(x) == IF x = None THEN JNull ELSE JFloat(x)
json_int(x) == IF x = None THEN JNull ELSE JInt(x)

\* json.loads of a number or null: a number with a point is a float (held in
\* cents), one without is an int.
py_number(j) ==
    IF j = JNull THEN None
    ELSE (IF j.neg THEN -1 ELSE 1)
            * (IF j.point THEN j.whole * 100 + j.frac ELSE j.whole)

\* The detail of a record, written and read member by member; the lists of
\* items and payments are arrays of objects of the same kinds of value.
json_data(d) ==
    [k \in DOMAIN d |->
        IF k \in MoneyFields THEN json_float(d[k])
        ELSE IF k \in IntFields THEN json_int(d[k])
        ELSE d[k]]
py_data(j) ==
    [k \in DOMAIN j |-> IF k \in MoneyFields \cup IntFields THEN py_number(j[k]) ELSE j[k]]

\* json.dumps of one record of the payload
json_record(record) ==
    [k \in DOMAIN record |->
        CASE k = "data" -> IF record[k] = NoData THEN JNull ELSE JObj(json_data(record[k]))
          [] k = "last_error" -> IF record[k] = <<>> THEN JNull ELSE JStr(record[k])
          [] k = "extracted_at" -> IF record[k] = 0 THEN JNull ELSE JStr(record[k])
          [] k = "complete" -> JBool(record[k])
          [] k = "attempts" -> JInt(record[k])
          [] k = "metadata" -> JObj(record[k])
          [] OTHER -> JStr(record[k])]

\* json.loads of one object of the array
py_record(object) ==
    [k \in DOMAIN object |->
        CASE k = "data" -> IF object[k] = JNull THEN NoData ELSE py_data(object[k].v)
          [] k = "last_error" -> IF object[k] = JNull THEN <<>> ELSE object[k].v
          [] k = "extracted_at" -> IF object[k] = JNull THEN 0 ELSE object[k].v
          [] k = "complete" -> object[k].json = "true"
          [] k = "attempts" -> py_number(object[k])
          [] OTHER -> object[k].v]

json_dumps(payload) == [i \in 1..Len(payload) |-> json_record(payload[i])]
json_loads(text) == [i \in 1..Len(text) |-> py_record(text[i])]

\* save_state, the whole of it: the sorted payload is written as JSON to the
\* temp file, which replaces the state file.
saved_file(st) == WholeFile(json_loads(json_dumps(state_payload(st))))

RecordFields ==
    {"payment_id", "metadata", "complete", "attempts", "last_error", "extracted_at",
     "data", "parsed_url"}
FullRecords(st) == \A i \in 1..Len(st) : DOMAIN st[i] = RecordFields

\* Records of older state files: the headers under metadata["columns"] or
\* flat, or no metadata; parsed_url given, empty or missing; the detail with
\* a parsed_url of its own; no payment id.
ColumnsMetadata(with_id) ==
    << [key |-> "columns",
        value |-> Dict(<< [key |-> "Order #", value |-> Num(7)],
                          [key |-> " Server ", value |-> NameCell],
                          [key |-> "Receipt", value |-> NameCell] >>)],
       [key |-> "detail_url", value |-> NameCell] >>
    \o (IF with_id THEN << [key |-> "payment_id", value |-> Num(1)] >> ELSE <<>>)

FlatMetadata == << [key |-> "Order #", value |-> Num(7)], [key |-> "Tip", value |-> Num(2000)] >>

\* The detail an older version stored: it carries a parsed_url of its own.
LegacyDetail ==
    [check_number |-> 7, total |-> 12888, tip |-> None, server |-> "Ana",
     parsed_url |-> "order-details#check-1"]

LegacyRecords ==
    { r \in UNION {
        { [payment_id |-> id, metadata |-> md, complete |-> FALSE, attempts |-> 1,
           last_error |-> <<>>, extracted_at |-> 0, data |-> d, parsed_url |-> url],
          [payment_id |-> id, metadata |-> md, complete |-> FALSE, attempts |-> 1,
           last_error |-> <<>>, extracted_at |-> 0, data |-> d],
          [payment_id |-> id, complete |-> FALSE, attempts |-> 1,
           last_error |-> <<>>, extracted_at |-> 0, data |-> d, parsed_url |-> url] } :
        id \in 0..MaxId,
        md \in {ColumnsMetadata(TRUE), ColumnsMetadata(FALSE), FlatMetadata},
        d \in {NoData, LegacyDetail},
        url \in {"", "order-details#check-1"} } : TRUE }

StateFiles ==
    {Missing}
        \cup { WholeFile(<<r>>) : r \in LegacyRecords }
        \cup { WholeFile(<<r, q>>) :
                 r \in {x \in LegacyRecords : x.payment_id = 2 /\ DOMAIN x = RecordFields},
                 q \in {x \in LegacyRecords : x.payment_id # 0 /\ x.data = NoData} }

StateRows ==
    {LegacyRow(1), LegacyRow(2), row_of_block(1, S4Block(10000, 12888, FALSE)),
     row_of_block(2, S4Block(10000, 13000, FALSE))}

\* A process starts and load_state reads the state file.
StateLoad ==
    /\ pc \in {"state_down", "state_saved"}
    /\ now <= MaxRuns
    /\ state' = load_state(fs[StatePath])
    /\ pc' = "state_loaded"
    /\ now' = now + 1
    /\ UNCHANGED <<ext_vars, block, fs, save_pc, save_payload, committed, crawl_vars>>

\* merge_metadata on the rows of a crawl.
StateMerge(rows) ==
    /\ pc = "state_loaded"
    /\ FullRecords(state)
    /\ state' = merge_metadata(state, rows, now)
    /\ pc' = "state_core"
    /\ UNCHANGED <<ext_vars, block, fs, save_pc, save_payload, committed, now, crawl_vars>>

\* The record update of process_details.run_one, success or failure.
StateDetail(payment_id, ok) ==
    /\ pc \in {"state_loaded", "state_core"}
    /\ FullRecords(state)
    /\ payment_id \in Keys(state)
    /\ Get(state, payment_id).attempts < MaxAttempts
    /\ state' = Put(state, payment_id,
                    IF ok THEN detail_ok_record(Get(state, payment_id), SampleDetail, now)
                    ELSE detail_err_record(Get(state, payment_id), <<"status=500">>, now))
    /\ pc' = "state_core"
    /\ UNCHANGED <<ext_vars, block, fs, save_pc, save_payload, committed, now, crawl_vars>>

\* save_state(path, state); committed is the file it replaces.
StateSave ==
    /\ pc \in {"state_loaded", "state_core"}
    /\ committed' = fs[StatePath]
    /\ fs' = [fs EXCEPT ![StatePath] = saved_file(state)]
    /\ pc' = "state_saved"
    /\ UNCHANGED <<ext_vars, block, state, save_pc, save_payload, now, crawl_vars>>

InitState ==
    /\ block = S4Block(10000, 12888, FALSE)
    /\ IdleExt
    /\ IdleCrawl
    /\ state = <<>>
    /\ pc = "state_down"
    /\ now = 1
    /\ \E f \in StateFiles :
           fs = [path \in Paths |-> IF path = StatePath THEN f ELSE Missing]
    /\ save_pc = "idle"
    /\ save_payload = <<>>
    /\ committed = Missing

NextState ==
    \/ StateLoad
    \/ \E rows \in SeqsUpTo(StateRows, MaxRows) \ {<<>>} : StateMerge(rows)
    \/ \E payment_id \in Ids, ok \in BOOLEAN : StateDetail(payment_id, ok)
    \/ StateSave

SpecState == InitState /\ [][NextState]_vars

-----------------------------------------------------------------------------
(* The DOM specification: one helper is called on one rendered page.        *)

SummaryTexts ==
    {ShowingText(1, 2, 4), ShowingText(3, 4, 4), ShowingText(0, 0, 0),
     PageOfText(1, 2), BlankText}

WidgetInputs ==
    {Widget("none", "none")} \cup
    {Widget(next, anchor) : next \in {"enabled", "disabled"},
                            anchor \in {"none", "hidden", "visible"}}

OrderElementInputs ==
    {OrderElement(meta_ids, form, order_number) :
        meta_ids \in {<<>>, <<MetaId(<<5>>)>>, <<MetaId(<<>>)>>,
                      <<MetaId(<<>>), MetaId(<<5>>)>>},
        form \in {NoForm, ReopenForm(<<6>>), ReopenForm(<<5>>), ReopenForm(<<>>)},
        order_number \in {0, 1, 7}}

DomInputs ==
    {Dom(summaries, <<>>, <<>>) : summaries \in SeqsUpTo(SummaryTexts, MaxSpans)}
    \cup {Dom(<<>>, paginations, <<>>) : paginations \in SeqsUpTo(WidgetInputs, MaxWidgets)}
    \cup {Dom(<<>>, <<>>, blocks) : blocks \in SeqsUpTo(OrderElementInputs, MaxDomBlocks)}

GetPaginationSummary(raised) ==
    /\ pc = "dom"
    /\ dom_result' = [value |-> get_pagination_summary(dom, raised),
                      raised |-> IF raised THEN "before" ELSE "no"]
    /\ pc' = "summary_read"
    /\ UNCHANGED <<not_dom_vars, dom, clicks>>

ClickNext(raised) ==
    /\ pc = "dom"
    /\ \E call \in {click_next_order_details_page(dom, raised)} :
           /\ dom_result' = [value |-> call.returned, raised |-> raised]
           /\ clicks' = IF call.clicked THEN Append(clicks, call.target) ELSE clicks
    /\ pc' = "next_clicked"
    /\ UNCHANGED <<not_dom_vars, dom>>

ExtractOrderBlocks ==
    /\ pc = "dom"
    /\ dom_result' = [value |-> extract_payment_ids(dom), raised |-> "no"]
    /\ pc' = "blocks_extracted"
    /\ UNCHANGED <<not_dom_vars, dom, clicks>>

InitDom ==
    /\ block = S4Block(10000, 12888, FALSE)
    /\ state = <<>>
    /\ pc = "dom"
    /\ now = 1
    /\ IdleStore
    /\ IdleCrawl
    /\ dom \in DomInputs
    /\ dom_result = NoResult
    /\ clicks = <<>>
    /\ IdleSite
    /\ IdleThrottle
    /\ IdleRun

NextDom ==
    \/ \E raised \in BOOLEAN : GetPaginationSummary(raised)
    \/ \E raised \in {"no", "before", "after"} : ClickNext(raised)
    \/ ExtractOrderBlocks

SpecDom == InitDom /\ [][NextDom]_vars

-----------------------------------------------------------------------------
(* Properties of the parser (SpecParser).                                   *)

Records == {state[i] : i \in 1..Len(state)}
ParsedRecords == {r \in Records : HasData(r)}

MoneyPresent(d) ==
    d.subtotal # None /\ d.tax # None /\ d.tip # None /\ d.gratuity # None
    /\ d.total # None

MoneyGap(d) ==
    Abs(d.subtotal + d.tax + d.tip + d.gratuity - OrZero(d.discount) - d.total)

\* C6: a check detail marked complete has at least one item, has a payment or
\* a total below half a cent in absolute value, has a check number, an opening
\* time or a server, and has no validation error.
C6_CompleteImplies ==
    \A r \in ParsedRecords :
        LET d == r.data
        IN  d.complete =>
                /\ d.items # <<>>
                /\ (d.payments # <<>> \/ (d.total # None /\ 2 * Abs(d.total) < 1))
                /\ (d.check_number # None \/ d.time_opened.k # "blank"
                    \/ d.server.k # "blank")
                /\ d.validation_errors = <<>>

\* A complete check without payments and a zero total, identified by its
\* server alone.
C6_Witness ==
    \E r \in ParsedRecords :
        /\ r.data.complete
        /\ r.data.payments = <<>>
        /\ r.data.total = 0
        /\ r.data.check_number = None
        /\ r.data.server.k = "name"

C7_WitnessComplete ==
    \E r \in ParsedRecords :
        LET d == r.data
        IN  /\ d.subtotal = 10000 /\ d.tax = 888 /\ d.tip = 2000 /\ d.gratuity = 0
            /\ d.discount = 0 /\ d.total = 12888
            /\ r.complete

HasLine(it) == it.quantity # None /\ it.unit_price # None /\ it.line_total # None

\* |q*u - d - L| in units of 1/QtyScale cents.
LineGapExact(it) ==
    Abs(it.quantity * it.unit_price - OrZero(it.discount) * QtyScale
        - it.line_total * QtyScale)

\* |round(q*u - d, 2) - L| in cents.
LineGapRounded(it) ==
    Abs(RoundDiv(it.quantity * it.unit_price - OrZero(it.discount) * QtyScale, QtyScale)
        - it.line_total)

\* C8, as stated: every line item of every record in the state that has a
\* quantity, a unit price and a line total satisfies |q*u - d - L| <= 0.05.
C8_Original ==
    \A r \in ParsedRecords : \A i \in 1..Len(r.data.items) :
        LET it == r.data.items[i]
        IN  HasLine(it) => LineGapExact(it) <= Tolerance * QtyScale

\* C8, amended: every line item of every record marked complete that has a
\* quantity, a unit price and a line total satisfies
\* |round(q*u - d, 2) - L| <= 0.05; a record with a line beyond that is stored
\* with complete = false and a line_total_mismatch entry for the line.
C8_LineIntegrity ==
    \A r \in ParsedRecords : \A i \in 1..Len(r.data.items) :
        LET it == r.data.items[i]
        IN  HasLine(it) =>
                /\ r.complete => LineGapRounded(it) <= Tolerance
                /\ LineGapRounded(it) > Tolerance =>
                       /\ ~r.complete
                       /\ \E j \in 1..Len(r.data.validation_errors) :
                              /\ r.data.validation_errors[j].kind = "line_total_mismatch"
                              /\ r.data.validation_errors[j].idx = i - 1

\* A stored record whose line is off by six cents, and which is not complete.
C8_Witness ==
    \E r \in ParsedRecords : \E i \in 1..Len(r.data.items) :
        LET it == r.data.items[i]
        IN  /\ HasLine(it)
            /\ it.discount = 0
            /\ LineGapRounded(it) = Tolerance + 1
            /\ ~r.complete
            /\ r.data.validation_errors # <<>>

\* A complete record whose line, with a discount, is within the tolerance.
C8_WitnessComplete ==
    \E r \in ParsedRecords : \E i \in 1..Len(r.data.items) :
        LET it == r.data.items[i]
        IN  HasLine(it) /\ it.discount > 0 /\ r.complete
            /\ LineGapRounded(it) = Tolerance

-----------------------------------------------------------------------------
(* Properties of the state store (SpecStore).                               *)

StateFile == fs[StatePath]
FileIds == {StateFile.recs[i].payment_id : i \in 1..Len(StateFile.recs)}

\* C1: whenever the state path is read, also after a kill at any point of
\* save_state, the file is the snapshot that was there when save_state was
\* called or the whole new snapshot, and it is never a partial file.
C1_CrashAtomic ==
    /\ StateFile = committed \/ StateFile = WholeFile(save_payload)
    /\ StateFile = Missing \/ StateFile.whole

\* The process was killed while the temp file was partly written, over an
\* earlier snapshot that differs from the one being saved.
C1_Witness ==
    /\ pc = "down"
    /\ fs[TmpPath(StatePath)].exists
    /\ ~fs[TmpPath(StatePath)].whole
    /\ fs[TmpPath(StatePath)].recs # <<>>
    /\ StateFile.exists
    /\ StateFile # WholeFile(save_payload)

\* C3: the records of the saved state file are in strictly ascending order
\* of payment id: sorted, and no payment id twice.
C3_SortedUnique ==
    \A i, j \in 1..Len(StateFile.recs) :
        i < j => StateFile.recs[i].payment_id < StateFile.recs[j].payment_id

\* The file was saved from a record map that holds a larger id before a
\* smaller one.
C3_Witness ==
    /\ Len(state) >= 2
    /\ state[1].payment_id > state[2].payment_id
    /\ save_pc = "done"
    /\ StateFile = WholeFile(state_payload(state))

\* C5: no step removes a payment id: the ids of the state file only grow, the
\* ids of the record map of a running process only grow, and a process that
\* starts holds every id of the file.
C5_NeverDeletes ==
    [][ /\ FileIds \subseteq FileIds'
        /\ (pc # "down" /\ pc' # "down") => Keys(state) \subseteq Keys(state')
        /\ (pc = "down" /\ pc' # "down") => FileIds \subseteq Keys(state') ]_vars

\* A later process has merged a record again, next to another one.
C5_Witness ==
    /\ now = MaxRuns
    /\ pc = "ready"
    /\ Cardinality(FileIds) >= 2
    /\ \E i \in 1..Len(StateFile.recs) : StateFile.recs[i].attempts >= 2

-----------------------------------------------------------------------------
(* Properties of the orchestrated runs (Spec).                              *)

\* C2, as stated: a process that has started holds, from the state file it
\* loaded, every record that the crawl of a killed run had accepted, and the
\* state file holds no payment id twice.
C2_Resume ==
    /\ pc # "down" => interrupted \subseteq Keys(state)
    /\ \A i, j \in 1..Len(StateFile.recs) :
           i # j => StateFile.recs[i].payment_id # StateFile.recs[j].payment_id

\* A run was killed after its crawl had accepted a record, and the next run
\* has loaded a state without it.
C2_Lost ==
    /\ pc = "auth"
    /\ interrupted # {}
    /\ ~(interrupted \subseteq Keys(state))

StripRecord(r) == [r EXCEPT !.extracted_at = 0, !.attempts = 0]
StripFile(f) == [f EXCEPT !.recs = [i \in 1..Len(f.recs) |-> StripRecord(f.recs[i])]]
RowSet(rows) == {rows[i] : i \in 1..Len(rows)}

\* C4: when a run completes after a completed run that crawled the same
\* rows, the state file it leaves is the state file the earlier run left, up
\* to the extracted_at and attempts fields of the records.
C4_Idempotent ==
    (pc = "done" /\ prev.valid /\ RowSet(prev.rows) = RowSet(all_rows))
        => StripFile(StateFile) = StripFile(prev.file)

\* Two completed runs over the same two rows, crawled in a different order,
\* one of them with a validation error; the files differ in the counters.
C4_Witness ==
    /\ pc = "done"
    /\ prev.valid
    /\ RowSet(prev.rows) = RowSet(all_rows)
    /\ Len(all_rows) = 2
    /\ prev.rows # all_rows
    /\ \E i \in 1..Len(all_rows) : all_rows[i].last_error # <<>>
    /\ StateFile # prev.file

-----------------------------------------------------------------------------
(* Properties of the crawl (SpecCrawl).                                     *)

\* C9, as stated: when crawl_metadata returns, the number of collected rows
\* equals the total of the last pagination summary it read, or a
\* pagination_mismatch event has been emitted; and pagination_verified and
\* pagination_mismatch are not both emitted.
C9_PageCompleteness ==
    pc = "merge" =>
        /\ \/ last_total = None
           \/ Len(all_rows) = last_total
           \/ PaginationMismatch \in events
        /\ ~(PaginationVerified \in events /\ PaginationMismatch \in events)

\* The crawl has returned rows, the last summary it read gives another total,
\* and neither event was emitted.
C9_Silent ==
    /\ pc = "merge"
    /\ last_total # None
    /\ all_rows # <<>>
    /\ Len(all_rows) # last_total
    /\ PaginationMismatch \notin events
    /\ PaginationVerified \notin events

\* C10: within one crawl, no two pages that rows were accepted from have
\* the same signature, the "|"-join of the first payment ids accepted from
\* the page.
C10_NoDupAdvance ==
    \A i, j \in 1..Len(accepted_sigs) :
        i < j => accepted_sigs[i] # accepted_sigs[j]

\* Rows were accepted from two pages: the ids "1" and "3" from the first,
\* signed "1|3", and the id "13" from the second, signed "13".
C10_Witness ==
    /\ accepted_sigs = <<Join(<<1, 3>>), Join(<<2>>)>>
    /\ Len(all_rows) = 3

Count(s, e) == Cardinality({i \in 1..Len(s) : s[i] = e})
CollectedIds == [i \in 1..Len(all_rows) |-> all_rows[i].payment_id]
NoArgs == limit = 0 /\ max_pages = 0

\* With no limit and no max_pages the crawl has fetched at most one page more
\* than the distinct payment ids it was shown, and its rows hold no id twice.
PagesBounded ==
    NoArgs =>
        /\ page_count <= Cardinality(seen_ids) + 1
        /\ \A id \in SiteIds : Count(CollectedIds, id) <= 1

\* C35: crawl_metadata returns, whatever pages the site shows, whether Next
\* is clicked and whatever the summary says; with no limit and no max_pages
\* it fetches at most one page more than there are distinct payment ids, and
\* the rows it returns hold each payment id at most once.
C35_Terminates == []PagesBounded /\ <>(pc = "merge")

\* The crawl has returned after a page for every id and one page more, on
\* which it stalled; Next was clicked each time and no summary was at its end.
C35_Witness ==
    /\ pc = "merge"
    /\ NoArgs
    /\ page_count = Cardinality(SiteIds) + 1
    /\ Cardinality(seen_ids) = Cardinality(SiteIds)
    /\ Stalled("no_new_ids") \in events
    /\ PaginationComplete \notin events

\* C37: crawl_metadata never logs the stall with the reason
\* repeated_page_signature: a signature that is not empty is never one of
\* the signatures taken before; and a page after the first that shows only
\* ids seen before ends the crawl with the reason no_new_ids when the limit
\* has not ended it.
C37_NeverRepeated ==
    /\ Stalled("repeated_page_signature") \notin events
    /\ \A i \in 1..Len(accepted_sigs) :
           accepted_sigs[i] \notin Range(SubSeq(accepted_sigs, 1, i - 1))
    /\ (pc = "merge" /\ NoArgs /\ page_count > Len(accepted_sigs) /\ page_count > 1)
           => Stalled("no_new_ids") \in events

\* The ids "1" and "3" came on the first page and the id "13" on the second:
\* the signatures "1|3" and "13" differ, and the third page, which showed
\* seen ids only, ended the crawl with no_new_ids.
C37_Witness ==
    /\ pc = "merge"
    /\ NoArgs
    /\ accepted_sigs = <<Join(<<1, 3>>), Join(<<2>>)>>
    /\ page_count = 3
    /\ Stalled("no_new_ids") \in events

-----------------------------------------------------------------------------
(* Properties of a turn of the crawl (SpecTurn).                            *)

LimitReached == limit # 0 /\ Len(all_rows) >= limit
MaxPagesReached == max_pages # 0 /\ page_count >= max_pages
MoreToCome(summary) == summary.has /\ summary.end < summary.total

\* C39: a turn of the loop that accepted a new record from a page whose
\* summary has end < total goes on to the click on Next, unless the limit or
\* max_pages is reached; and a turn that the no-items message ended had no
\* order block on its page.
C39_NextAttempted ==
    dom_result # NoResult =>
        /\ (/\ dom_result.page_added > 0
            /\ MoreToCome(dom_result.summary)
            /\ ~LimitReached
            /\ ~MaxPagesReached) => dom_result.clicks_next
        /\ (/\ dom_result.no_items
            /\ ~dom_result.clicks_next
            /\ dom_result.page_added > 0
            /\ ~LimitReached
            /\ ~MaxPagesReached) => dom_result.blocks = 0

\* The first page gave two new records under a summary "1 through 2 of 3",
\* with no limit and no max_pages; the no-items message was found in the
\* page's text, and the loop ended without a click on Next.
C39_NoItemsEnds ==
    /\ pc = "verify"
    /\ NoArgs
    /\ page_count = 1
    /\ dom_result # NoResult
    /\ dom_result.blocks = 2
    /\ dom_result.page_added = 2
    /\ dom_result.summary = [has |-> TRUE, end |-> 2, total |-> 3]
    /\ dom_result.no_items
    /\ ~dom_result.clicks_next
    /\ events = {PageFetched}

-----------------------------------------------------------------------------
(* Properties of the Menu Item Summary crawl (SpecMenu).                    *)

\* C36: crawl_menu_item_summary returns, whatever pages the table shows and
\* whether Next is clicked or not.
C36_Terminates == <>(pc = "menu_returned")

\* With no max_pages, every row of the table has been accepted, two more
\* pages than there are rows have been read, and Next has been clicked again.
C36_StillCrawling ==
    /\ pc = "menu_crawl"
    /\ max_pages = 0
    /\ Len(all_rows) = Cardinality(MenuRows)
    /\ page_count >= Cardinality(MenuRows) + 2
    /\ MenuStalled("repeated_page_signature") \notin events

-----------------------------------------------------------------------------
(* Properties of the crawl against a served report (SpecSite).              *)

RECURSIVE Flatten(_)
Flatten(pages) == IF pages = <<>> THEN <<>> ELSE Head(pages) \o Flatten(Tail(pages))

StalledReasons == {log[i][2] : i \in {j \in 1..Len(log) : log[j][1] = Stalled("")[1]}}

\* C12: when crawl_metadata returns from a report whose first page says
\* there is more and whose Next changes neither the summary nor the order
\* blocks (no limit, no max_pages), it has waited no longer than the advance
\* timeout, it has logged order_details_pagination_stalled with the reason
\* repeated_page_signature or a timeout reason, and it returns exactly the
\* records of the first page.
C12_StallReason ==
    (pc = "merge" /\ ~site.advances /\ NoArgs) =>
        /\ waited <= AdvanceTimeout
        /\ StalledReasons \cap {"repeated_page_signature", "timeout"} # {}
        /\ CollectedIds = site.pages[1]

\* The crawl of such a report has returned the first page's records, and the
\* one stall it has logged has the reason no_new_ids.
C12_NoNewIds ==
    /\ pc = "merge"
    /\ ~site.advances
    /\ NoArgs
    /\ CollectedIds = site.pages[1]
    /\ waited >= AdvanceTimeout
    /\ StalledReasons = {"no_new_ids"}

-----------------------------------------------------------------------------
(* Properties of the orchestrator (SpecRun).                                *)

Calls == {i \in 1..Len(log) : log[i].ev = "run_once"}
Restarts == {i \in 1..Len(log) : log[i].ev = "run_restart"}
IsAuthBlocked(exc) == exc # NoExc /\ InMessage("AUTH_BLOCKED", exc)
Permitted == (IF args.auth_block_restarts > 0 THEN args.auth_block_restarts ELSE 0) + 1

\* C16: run calls run_once at most max(0, auth_block_restarts) + 1 times;
\* every call but the first follows a call that failed with AUTH_BLOCKED in
\* its message; any other failure, and an AUTH_BLOCKED failure of the last
\* permitted attempt, comes out of run with no further call; and when
\* attempt 1 is blocked and attempt 2 succeeds, one run_restart event (of
\* attempt 1) is logged and run returns.
C16_BoundedRestart ==
    pc \in {"run", "returned", "raised"} =>
        /\ Cardinality(Calls) <= Permitted
        /\ \A i \in Calls :
               /\ log[i].n > 1 =>
                      \E j \in Calls : /\ j < i
                                       /\ log[j].n = log[i].n - 1
                                       /\ IsAuthBlocked(log[j].exc)
               /\ (log[i].exc # NoExc
                     /\ (~IsAuthBlocked(log[i].exc) \/ log[i].n >= Permitted))
                      => /\ i = Len(log)
                         /\ pc = "raised"
                         /\ error = log[i].exc
        /\ (\E i, j \in Calls : /\ log[i].n = 1 /\ IsAuthBlocked(log[i].exc)
                                /\ log[j].n = 2 /\ log[j].exc = NoExc)
               => /\ pc = "returned"
                  /\ Cardinality(Restarts) = 1
                  /\ \A i \in Restarts : log[i].n = 1

\* Attempt 1 was blocked, attempt 2 has succeeded.
C16_Witness ==
    /\ pc = "returned"
    /\ args.auth_block_restarts = 2
    /\ Cardinality(Calls) = 2
    /\ Cardinality(Restarts) = 1
    /\ \E i \in Calls : log[i].exc = AuthBlocked

\* The steps that follow the run_restart event at i, up to the next call.
RecoveryOf(i) ==
    LET next == IF \E j \in Calls : j > i
                THEN CHOOSE j \in Calls : j > i /\ \A k \in Calls : k > i => j <= k
                ELSE Len(log) + 1
    IN  (i + 1)..(next - 1)
At(ev, S) == {k \in S : log[k].ev = ev}

\* C17: after every run_restart the recovery steps come in this order:
\* logout; the profile wipe, when reset_profile_on_auth_block is set (the
\* profile is left alone otherwise); the cooldown sleep, of at least
\* auth_block_cooldown_sec seconds; and then the next run_once.
C17_RecoveryOrder ==
    \A i \in Restarts :
        LET S == RecoveryOf(i)
        IN  /\ Cardinality(At("logout", S)) = 1
            /\ Cardinality(At("profile_reset", S)) =
                   (IF args.reset_profile_on_auth_block THEN 1 ELSE 0)
            /\ \A l \in At("logout", S), w \in At("profile_reset", S) : l < w
            /\ args.auth_block_cooldown_sec > 0 =>
                   /\ Cardinality(At("sleep", S)) = 1
                   /\ \A c \in At("sleep", S) :
                          /\ log[c].n >= args.auth_block_cooldown_sec
                          /\ \A l \in At("logout", S) : l < c
                          /\ \A w \in At("profile_reset", S) : w < c
            /\ ~args.reset_profile_on_auth_block => profile = "used"

\* A restart whose cooldown sleep comes before the logout and the wipe.
C17_SleepFirst ==
    \E i \in Restarts :
        /\ i + 3 <= Len(log)
        /\ log[i + 1].ev = "sleep"
        /\ log[i + 2].ev = "logout"
        /\ log[i + 3].ev = "profile_reset"

-----------------------------------------------------------------------------
(* Properties of ensure_authenticated (SpecAuth).                           *)

Logged(ev) == \E i \in 1..Len(log) : log[i].ev = ev

\* C18: when ensure_authenticated fails after a challenge that did not
\* clear (at the start or after the credentials were submitted) or after
\* the dashboard marker did not show within the attempts, the error is a
\* RuntimeError with AUTH_BLOCKED in its message, the one run restarts on.
C18_BlockedClass ==
    (pc = "auth_raised" /\ causes # {}) =>
        error.class = "RuntimeError" /\ InMessage("AUTH_BLOCKED", error)

\* The challenge stayed after every submission of the credentials, and the
\* error is AUTH_FAILED.
C18_ChallengeFailed ==
    /\ pc = "auth_raised"
    /\ causes = {"challenge_post_submit"}
    /\ error = AuthFailedLogin

\* C19: without credentials and with manual login not allowed, a session
\* that is not authenticated makes ensure_authenticated fail at once, with
\* no credential attempt and no manual-login wait; and the manual-login wait
\* is entered only with allow_manual_login set and no credentials.
C19_FailFast ==
    /\ (~args.credentials /\ ~args.allow_manual_login) =>
           /\ ~Logged("auth_attempt_start")
           /\ ~Logged("manual_login_wait")
           /\ pc \notin {"auth_manual", "auth_attempt"}
           /\ (Len(log) > 0 /\ log[Len(log)] = AuthenticatedCheck(FALSE)) =>
                  pc = "auth_raised" /\ error = AuthFailedNoCredentials
           /\ \A i \in 1..Len(log) : log[i] = AuthenticatedCheck(FALSE) => i = Len(log)
    /\ (pc = "auth_manual" \/ Logged("manual_login_wait")) =>
           args.allow_manual_login /\ ~args.credentials

\* The session was found not authenticated, there are no credentials and
\* manual login is not allowed: AUTH_FAILED has been raised.
C19_Witness ==
    /\ ~args.credentials
    /\ ~args.allow_manual_login
    /\ Len(log) > 0
    /\ log[Len(log)] = AuthenticatedCheck(FALSE)
    /\ pc = "auth_raised"
    /\ error = AuthFailedNoCredentials

\* The payments of the parsed block, as stored.
ParsedPayments == IF Len(state) = 0 THEN <<>> ELSE state[1].data.payments

\* C23: in every CheckDetail produced by map_detail_payload, a payment whose
\* payment_type is 'Gift Card' has no card_type and no card_last_4, whatever
\* card values the payment-type text, the row, the label/value pairs or the
\* metadata hold.
C23_GiftCard ==
    pc = "parsed" =>
        \A i \in 1..Len(ParsedPayments) :
            ParsedPayments[i].payment_type = "Gift Card" =>
                /\ ParsedPayments[i].card_type = Blank
                /\ ParsedPayments[i].card_last_4 = Blank

\* A gift-card payment comes first, its row holds a card type and last four
\* digits, and so do the label/value pairs and the metadata; a card payment
\* follows and keeps its card values.
C23_Witness ==
    /\ pc = "parsed"
    /\ Len(ParsedPayments) = 2
    /\ ParsedPayments[1].payment_type = "Gift Card"
    /\ ParsedPayments[2].card_last_4 = Num(4321)
    /\ block.payload.pairs # <<>>
    /\ Len(block.metadata) > 3
    /\ block.payload.tables[2].rows[1].card_type = VisaCell
    /\ block.payload.tables[2].rows[1].card_last_4 = Num(1234)

-----------------------------------------------------------------------------
(* Properties of the field fusion of map_detail_payload (SpecParser).       *)

\* The parsed detail of the block.
ParsedDetail == state[1].data

\* The keys under which the metadata mapping is searched for a field.
MetadataCandidates(field) ==
    CASE field = "subtotal" -> <<"subtotal", "amount", "net sales", "pre-tax">>
      [] field = "gratuity" -> <<"gratuity", "service charge">>
      [] OTHER -> <<field>>

\* What each source holds for a money field of the block, highest precedence
\* first: summary span, label/value pair, body-text probe, metadata.
SourceValues(field) ==
    << parse_decimal(block.payload.summary[field]),
       parse_decimal(pick_value(block.payload.pairs, {field})),
       IF field = "discount" THEN None ELSE parse_decimal(block.payload.body[field]),
       parse_decimal(pick_metadata_value(normalize_metadata_fields(block.metadata),
                                         MetadataCandidates(field))) >>

\* The value of the highest-precedence source that provides one, or None.
HighestGiven(field) ==
    LET given == NotNone(SourceValues(field))
    IN  IF given = <<>> THEN None ELSE Head(given)

\* C31: for each monetary field (subtotal, tax, tip, gratuity, discount,
\* total) map_detail_payload returns the value of the highest-precedence
\* source that provides one, in the order summary spans, label/value pairs,
\* body-text probes, metadata, derived values; a value present in a higher
\* source, 0.00 included, is never overridden by a lower source.
C31_Precedence ==
    pc = "parsed" =>
        \A field \in MoneyFields :
            HighestGiven(field) # None => ParsedDetail[field] = HighestGiven(field)

\* The label/value pairs give tax 0.00 and the body-text probe gives 8.88: the
\* detail holds 8.88.
C31_ZeroOverridden ==
    /\ pc = "parsed"
    /\ SourceValues("tax")[1] = None
    /\ SourceValues("tax")[2] = 0
    /\ SourceValues("tax")[3] = 888
    /\ ParsedDetail.tax = 888

\* The label/value pairs give tip 5.00 and the payments table sums to 20.00:
\* the detail holds the derived 20.00.
C31_DerivedFirst ==
    /\ pc = "parsed"
    /\ SourceValues("tip")[1] = None
    /\ SourceValues("tip")[2] = 500
    /\ ParsedDetail.payments # <<>>
    /\ ParsedDetail.tip = 2000

\* A tax below half a cent in absolute value counts as 0.
ClampTax(x) == IF 2 * Abs(x) < 1 THEN 0 ELSE x

\* Every item has a net line total and a line total with tax.
ExposeTax(items) ==
    /\ items # <<>>
    /\ \A i \in 1..Len(items) :
          items[i].line_total # None /\ items[i].line_total_with_tax # None

\* The sum over the items of line_total_with_tax - line_total
ItemsTax(items) ==
    SumSeq([i \in 1..Len(items) |-> items[i].line_total_with_tax - items[i].line_total])

\* C32: when no source provides tax and subtotal, total, tip and gratuity are
\* all present, tax = total - subtotal - tip - gratuity; when tax is still
\* missing and the items expose line_total_with_tax, tax is the sum of
\* line_total_with_tax - line_total; a tax below 0.005 in absolute value is 0.
C32_TaxDerivation ==
    (pc = "parsed" /\ HighestGiven("tax") = None) =>
        LET d == ParsedDetail
        IN  IF d.subtotal # None /\ d.total # None /\ d.tip # None /\ d.gratuity # None
            THEN d.tax = ClampTax(d.total - d.subtotal - d.tip - d.gratuity)
            ELSE ExposeTax(d.items) => d.tax = ClampTax(ItemsTax(d.items))

\* No source gives tax or tip, subtotal is 100.00 and total 128.88, the one
\* item has 8.88 of tax: the detail holds tax 28.88, the tip included.
C32_TipAbsorbed ==
    /\ pc = "parsed"
    /\ HighestGiven("tax") = None
    /\ ParsedDetail.tip = None
    /\ ParsedDetail.subtotal = 10000
    /\ ParsedDetail.total = 12888
    /\ ExposeTax(ParsedDetail.items)
    /\ ItemsTax(ParsedDetail.items) = 888
    /\ ParsedDetail.tax = 2888

\* Subtotal, tip, gratuity and total are present and the total is below their
\* sum: the difference is not taken and no tax is set.
C32_NegativeRefused ==
    /\ pc = "parsed"
    /\ HighestGiven("tax") = None
    /\ ParsedDetail.subtotal # None
    /\ ParsedDetail.tip # None
    /\ ParsedDetail.gratuity # None
    /\ ParsedDetail.total # None
    /\ ParsedDetail.total - ParsedDetail.subtotal - ParsedDetail.tip - ParsedDetail.gratuity < 0
    /\ ParsedDetail.items = <<>>
    /\ ParsedDetail.tax = None

\* The tables of the block, in document order.
Tables == block.payload.tables

TableKinds == {"items", "discounts", "payments"}

HasShape(kind, table) ==
    CASE kind = "items" -> items_shape(table)
      [] kind = "discounts" -> discounts_shape(table)
      [] kind = "payments" -> payments_shape(table)

\* The names of the rows of a table that count for a shape: items with a
\* name, discounts, payments with a type or an amount.
RowNames(kind, table) ==
    CASE kind = "items" ->
            SelectSeq([i \in 1..Len(table.rows) |-> table.rows[i].item_name],
                      LAMBDA name : name # "")
      [] kind = "discounts" -> [i \in 1..Len(table.rows) |-> table.rows[i].name]
      [] kind = "payments" ->
            LET kept == SelectSeq(table.rows,
                            LAMBDA row : row.payment_type # "" \/ row.amount # Blank)
            IN  [i \in 1..Len(kept) |-> normalize_payment_type(kept[i].payment_type)]

\* The names of the rows the detail holds for a shape.
TakenNames(kind) ==
    CASE kind = "items" ->
            [i \in 1..Len(ParsedDetail.items) |-> ParsedDetail.items[i].item_name]
      [] kind = "discounts" ->
            [i \in 1..Len(ParsedDetail.discounts) |-> ParsedDetail.discounts[i].name]
      [] kind = "payments" ->
            [i \in 1..Len(ParsedDetail.payments) |-> ParsedDetail.payments[i].payment_type]

\* The tables of a shape, and those of them with a row that counts.
Shaped(kind) == {i \in 1..Len(Tables) : HasShape(kind, Tables[i])}
Usable(kind) == {i \in Shaped(kind) : RowNames(kind, Tables[i]) # <<>>}

\* The rows of the first table of a set of tables, nothing for no table.
FirstRows(kind, S) ==
    IF S = {} THEN <<>>
    ELSE RowNames(kind, Tables[CHOOSE i \in S : \A j \in S : i <= j])

\* C33 as stated: for each of the three shapes the rows are taken from the
\* first table in document order whose headers match the shape, later
\* matching tables are never used, and tables matching no shape contribute
\* nothing.
C33_Original ==
    pc = "parsed" =>
        \A kind \in TableKinds : TakenNames(kind) = FirstRows(kind, Shaped(kind))

\* C33: for each of the three shapes the rows are taken from the first table
\* in document order whose headers match the shape and that has a row that
\* counts (an item with a name, a discount row, a payment with a type or an
\* amount); matching tables after that one are never used, and tables
\* matching no shape contribute nothing.
C33_FirstTable ==
    pc = "parsed" =>
        \A kind \in TableKinds : TakenNames(kind) = FirstRows(kind, Usable(kind))

\* A table of no shape holds an item row, two items tables follow: the
\* detail holds the item of the first items table.
C33_Witness ==
    /\ pc = "parsed"
    /\ Len(Tables) = 3
    /\ ~HasShape("items", Tables[1])
    /\ Tables[1].rows = <<GoodItemRow>>
    /\ Shaped("items") = {2, 3}
    /\ Usable("items") = {2, 3}
    /\ RowNames("items", Tables[3]) = <<"Burger">>
    /\ TakenNames("items") = <<"Fries">>

\* The first payments table has no row with a type or an amount: the detail
\* holds the payment of the second payments table.
C33_WitnessSkipped ==
    /\ pc = "parsed"
    /\ Len(Tables) = 2
    /\ Shaped("payments") = {1, 2}
    /\ Usable("payments") = {2}
    /\ TakenNames("payments") = <<"cash">>

-----------------------------------------------------------------------------
(* Properties of set_date_range (SpecDates).                                *)

\* An input of the side holds the requested date in the form of its kind.
DateAssigned(side) ==
    \E kind \in InputKinds :
        /\ dom.inputs[side][kind].present
        /\ dom.inputs[side][kind].assigned
        /\ dom.inputs[side][kind].value = wanted(side, kind)

ApplyTriggered == clicks # <<>>

\* C34: set_date_range triggers Apply (button click, scripted click or Enter)
\* only after both a start-date input and an end-date input have been
\* assigned the requested dates (visible inputs as MM-DD-YYYY, legacy
\* #startDate/#endDate as M/D/YY); when it cannot locate or set both it
\* returns without triggering Apply; and whenever it triggers Apply it
\* afterwards logs a date_range_values event with the values the report holds.
C34_ApplyAfterBoth ==
    /\ ApplyTriggered => (DateAssigned("start") /\ DateAssigned("end"))
    /\ (pc = "dates_returned" /\ ApplyTriggered) =>
          (Len(log) = 1 /\ log[1] = date_range_values(dom))

\* The page has a backing start input that can be filled and, for the end,
\* only a visible input whose fill raises; no script raised.  Apply was
\* clicked with no end date assigned, and the event was logged.
C34_EndNotSet ==
    /\ pc = "dates_returned"
    /\ ApplyTriggered
    /\ DateAssigned("start")
    /\ ~DateAssigned("end")
    /\ dom.inputs["end"]["visible"].present
    /\ ~dom.inputs["end"]["legacy"].present
    /\ ~dom.inputs["end"]["backing"].present
    /\ Len(log) = 1

\* Apply was triggered with both dates assigned and the read-back raised: no
\* date_range_values event.
C34_NotLogged ==
    /\ pc = "dates_returned"
    /\ ApplyTriggered
    /\ DateAssigned("start")
    /\ DateAssigned("end")
    /\ log = <<>>

-----------------------------------------------------------------------------
(* Properties of load_state and save_state (SpecState).                     *)

\* Two record maps are equal as mappings: the same ids, each once, with the
\* same record.
SameMapping(a, b) ==
    /\ Keys(a) = Keys(b)
    /\ Cardinality(Keys(a)) = Len(a)
    /\ Cardinality(Keys(b)) = Len(b)
    /\ \A id \in Keys(a) : Get(a, id) = Get(b, id)

\* The records of a file that load_state keeps: those with a payment id, the
\* last of each id.
Kept(file) ==
    { i \in 1..Len(file.recs) :
        /\ "payment_id" \in DOMAIN file.recs[i]
        /\ file.recs[i].payment_id # 0
        /\ \A j \in (i + 1)..Len(file.recs) :
              file.recs[j].payment_id # file.recs[i].payment_id }

HasColumns(record) ==
    /\ "metadata" \in DOMAIN record
    /\ \E i \in 1..Len(record.metadata) :
          record.metadata[i].key = "columns" /\ record.metadata[i].value.k = "dict"
ColumnsOf(record) == DictGet(record.metadata, "columns").v

\* What load_state makes of the file it read.
LegacyLoaded ==
    (pc = "state_loaded" /\ fs[StatePath].exists) =>
        /\ Keys(state) = { fs[StatePath].recs[i].payment_id : i \in Kept(fs[StatePath]) }
        /\ \A i \in Kept(fs[StatePath]) :
              LET old == fs[StatePath].recs[i]
                  new == Get(state, old.payment_id)
              IN  /\ new.parsed_url =
                        (IF "parsed_url" \in DOMAIN old /\ old.parsed_url # ""
                         THEN old.parsed_url ELSE ORDER_DETAILS_URL)
                  /\ HasColumns(old) =>
                        /\ "columns" \notin DictKeys(new.metadata)
                        /\ "detail_url" \notin DictKeys(new.metadata)
                        /\ \A j \in 1..Len(ColumnsOf(old)) :
                              ColumnsOf(old)[j].key = "Order #" =>
                                  /\ "Order #" \in DictKeys(new.metadata)
                                  /\ DictGet(new.metadata, "Order #") = ColumnsOf(old)[j].value

\* C30: load_state and save_state round-trip: for every state the core
\* produces, load_state after save_state returns a mapping equal to that
\* state; load_state of a missing file returns the empty mapping; for legacy
\* records it replaces a metadata 'columns' sub-mapping by its flattened
\* content and sets a missing parsed_url to the report URL constant; and load,
\* save, load again changes nothing further.
C30_RoundTrip ==
    /\ pc = "state_saved" => SameMapping(load_state(fs[StatePath]), state)
    /\ (pc = "state_loaded" /\ ~fs[StatePath].exists) => state = <<>>
    /\ LegacyLoaded

\* A legacy file (headers under "columns", no parsed_url, a parsed_url in the
\* detail) was loaded and saved: the record holds the flattened headers and
\* the report URL.
C30_Witness ==
    /\ pc = "state_saved"
    /\ committed.exists
    /\ Len(committed.recs) = 1
    /\ HasColumns(committed.recs[1])
    /\ "parsed_url" \notin DOMAIN committed.recs[1]
    /\ committed.recs[1].data # NoData
    /\ Len(state) = 1
    /\ state[1].parsed_url = ORDER_DETAILS_URL
    /\ "Server" \in DictKeys(state[1].metadata)
    /\ "parsed_url" \notin DOMAIN state[1].data

\* A state the core produced, the later id inserted first, has been saved.
C30_WitnessCore ==
    /\ pc = "state_saved"
    /\ Len(state) = 2
    /\ state[1].payment_id > state[2].payment_id
    /\ state[1].data # NoData
    /\ state[1].attempts = 2
    /\ fs[StatePath].recs[1].payment_id = 1

-----------------------------------------------------------------------------
(* Properties of run_once (SpecOnce).                                       *)

C29_WitnessMetadataOnly ==
    /\ pc = "once_returned"
    /\ args.metadata_only
    /\ ~args.skip_metadata
    /\ context = "closed"

MenuStarts == {i \in 1..Len(log) : log[i].ev = "menu_summary_crawl_start"}
MenuFailures == {i \in 1..Len(log) : log[i].ev = "menu_summary_crawl_failed"}

\* C40: a menu summary crawl that was started and raised is logged as
\* menu_summary_crawl_failed and nothing else comes of it: no file is saved
\* after the event, no restart follows, and the attempt goes on to
\* run_complete or to the metadata_only exit, unless the completion fails
\* by itself.
C40_MenuFailureDropped ==
    /\ \A i \in MenuStarts :
           IF i = Len(log) THEN pc = "once_menu"
           ELSE /\ log[i + 1].n = log[i].n
                /\ log[i + 1].ev \in {"menu_summary_crawl_failed", "save_menu_summary"}
    /\ \A i \in MenuFailures :
           /\ \A j \in (i + 1)..Len(log) :
                  /\ log[j].n = log[i].n
                  /\ log[j].ev \in {"run_complete", "run_exit"}
           /\ i = Len(log) =>
                  \/ pc = "once_final"
                  \/ pc \in {"once_except", "once_raised"} /\ error = IoError
           /\ \E j \in 1..(i - 1) :
                  log[j] = Step("save_state", log[i].n, NoExc)

\* The menu summary crawl raised AUTH_BLOCKED in the first attempt; the
\* failure was logged and the attempt ended with run_complete.
C40_Witness ==
    /\ pc = "once_returned"
    /\ attempt = 1
    /\ Len(log) >= 2
    /\ log[Len(log) - 1] = Step("menu_summary_crawl_failed", 1, AuthBlocked)
    /\ log[Len(log)] = Step("run_complete", 1, NoExc)

\* The same with metadata_only: the attempt ended with run_exit.
C40_WitnessMetadataOnly ==
    /\ pc = "once_returned"
    /\ args.metadata_only
    /\ Len(log) >= 2
    /\ log[Len(log) - 1] = Step("menu_summary_crawl_failed", attempt, NavTimeout)
    /\ log[Len(log)] = Step("run_exit", attempt, NoExc)

-----------------------------------------------------------------------------
(* Properties of ensure_authenticated, poll by poll (SpecLogin).            *)

InLogin ==
    pc \in {"login_nav", "login_challenge", "login_check", "login_manual", "login_attempt",
            "login_post_challenge", "login_wait", "login_returned", "login_raised"}
LoginEnded == pc \in {"login_returned", "login_raised"}
AuthEvents ==
    {"auth_challenge_detected", "auth_attempt_start", "auth_attempt_error",
     "auth_attempt_timeout", "auth_success"}
AttemptStarts == { i \in 1..Len(log) : log[i].ev = "auth_attempt_start" }
Waits(ev) == { i \in 1..Len(log) : log[i].ev = ev }

\* At most max(1, max_attempts) attempts, one auth_attempt_start each; the
\* call raises nothing but AUTH_BLOCKED and AUTH_FAILED; auth_success comes
\* at most once and no auth event follows it.
AttemptsAndEvents ==
    InLogin =>
        /\ Cardinality(AttemptStarts) <= (IF args.max_attempts > 1 THEN args.max_attempts ELSE 1)
        /\ \A i, j \in AttemptStarts : log[i].n = log[j].n => i = j
        /\ attempt = Cardinality(AttemptStarts) + (IF pc = "login_attempt" THEN 1 ELSE 0)
        /\ pc = "login_raised" =>
              (InMessage("AUTH_BLOCKED", error) \/ InMessage("AUTH_FAILED", error))
        /\ pc = "login_returned" => error = NoExc
        /\ \A i \in 1..Len(log) :
              log[i].ev = "auth_success" =>
                  /\ pc = "login_returned"
                  /\ \A j \in (i + 1)..Len(log) : log[j].ev \notin AuthEvents

\* The polls of one attempt take no more than challenge_timeout_sec plus
\* timeout_sec.
WaitsWithinTimeouts ==
    InLogin =>
        \A i \in Waits("auth_wait") :
            /\ log[i].waited <= (args.challenge_timeout_sec + args.timeout_sec) * PollSleep
            /\ \A j \in Waits("challenge_wait") :
                  log[j].n = log[i].n =>
                      log[i].waited + log[j].waited
                          <= (args.challenge_timeout_sec + args.timeout_sec) * PollSleep

\* The wait for the challenge takes no more than challenge_timeout_sec; the
\* poll for the marker ends within one turn (800 ms for a dismissed prompt
\* and the sleep of 1 s) of timeout_sec.
WaitsWithinOnePoll ==
    InLogin =>
        /\ \A j \in Waits("challenge_wait") :
              log[j].waited <= Max(0, args.challenge_timeout_sec) * PollSleep
        /\ \A i \in Waits("auth_wait") :
              log[i].waited < Max(0, args.timeout_sec) * PollSleep + PromptPause + PollSleep

\* The claim as stated for C26, with each attempt waiting at most
\* challenge_timeout_sec plus timeout_sec.
C26_Original ==
    /\ [](AttemptsAndEvents /\ WaitsWithinTimeouts)
    /\ <>LoginEnded

\* C26: ensure_authenticated always terminates: it performs at most
\* max(1, max_attempts) credential attempts (one auth_attempt_start each), and
\* ends either by returning or by raising an AUTH_BLOCKED / AUTH_FAILED error;
\* auth_success is emitted at most once and only as the last auth event; each
\* attempt waits at most challenge_timeout_sec for a challenge and polls for
\* the marker until less than 1.8 s past timeout_sec.
C26_Terminates ==
    /\ [](AttemptsAndEvents /\ WaitsWithinOnePoll)
    /\ <>LoginEnded

\* Two attempts have failed and AUTH_FAILED is raised; the second waited for
\* a challenge to clear and then polled past timeout_sec.
C26_Witness ==
    /\ pc = "login_raised"
    /\ error = AuthFailedLogin
    /\ Cardinality(AttemptStarts) = MaxAuthAttempts
    /\ \E i \in Waits("auth_wait"), j \in Waits("challenge_wait") :
          /\ log[i].n = MaxAuthAttempts
          /\ log[j].n = MaxAuthAttempts
          /\ log[j].waited > 0
          /\ log[i].waited > args.timeout_sec * PollSleep

\* The credentials succeed at the second attempt.
C26_WitnessSuccess ==
    /\ pc = "login_returned"
    /\ \E i \in 1..Len(log) : log[i].ev = "auth_success" /\ log[i].n = MaxAuthAttempts

\* C27: the session is reported authenticated (ensure_authenticated returns
\* normally) only when the page shows no logged-out marker: no password
\* input, no Log in / Sign in button, and no 'login' in its URL.
C27_NoLoggedOutMarker ==
    pc = "login_returned" =>
        /\ PasswordInput \notin dom.shown
        /\ LoginButton \notin dom.shown
        /\ dom.url # LoginUrl

\* ensure_authenticated has returned on the login page: the URL holds
\* 'login', a password input shows, and a link to the reports matched an
\* authenticated marker.
C27_LoggedOutAccepted ==
    /\ pc = "login_returned"
    /\ dom.url = LoginUrl
    /\ PasswordInput \in dom.shown
    /\ ReportsLink \in dom.shown

-----------------------------------------------------------------------------
(* Properties of the detail throttle (SpecThrottle).                        *)

Outcomes == {i \in 1..Len(log) : log[i].ev \in {"detail_error", "detail_done"}}
ThrottleError(e) ==
    /\ e.ev = "detail_error"
    /\ \E w \in {"AUTH_BLOCKED", "status=429", "status=403"} :
           \E k \in 1..Len(e.exc.message) : e.exc.message[k] = w
MultBefore(i) ==
    LET prior == {j \in Outcomes : j < i}
    IN  IF prior = {} THEN MultScale
        ELSE log[CHOOSE j \in prior : \A k \in prior : k <= j].multiplier
SuccessiveErrors(i, j) ==
    /\ i \in Outcomes
    /\ j \in Outcomes
    /\ i < j
    /\ ThrottleError(log[i])
    /\ ThrottleError(log[j])
    /\ \A k \in Outcomes : ~(i < k /\ k < j)
    /\ MultBefore(i) = MultScale

\* One step of process_details: a throttle error counts one event, sets the
\* multiplier to clamp(1.65 * multiplier, 1.5, 8.0) and puts throttle_until
\* at now + min(120, 2^min(throttle_events, 7)) seconds or later; and
\* throttle_until never goes down.
BackoffStep ==
    /\ throttle_until' >= throttle_until
    /\ (/\ Len(log') = Len(log) + 1
        /\ ThrottleError(log'[Len(log')])) =>
           /\ throttle_events' = throttle_events + 1
           /\ LET grown == (throttle_multiplier * 165) \div 100
                  low == (15 * MultScale) \div 10
                  high == 8 * MultScale
              IN  throttle_multiplier' =
                      (IF grown < low THEN low ELSE IF grown > high THEN high ELSE grown)
           /\ LET e == IF throttle_events' < 7 THEN throttle_events' ELSE 7
                  secs == IF 2 ^ e < 120 THEN 2 ^ e ELSE 120
              IN  throttle_until' >= now + secs * 1000

\* Two throttle errors in a row from multiplier 1.0: the multiplier is 2.48
\* or more, and a task that comes to the rate lock after them starts its
\* navigation 2 s after the second error or later.
TwoErrors ==
    \A i, j \in 1..Len(log) :
        SuccessiveErrors(i, j) =>
            /\ log[j].multiplier * 100 >= 248 * MultScale
            /\ \A g, l \in 1..Len(log) :
                   (/\ j < g
                    /\ g < l
                    /\ log[g].ev = "gate_enter"
                    /\ log[l].ev = "launch"
                    /\ log[l].n = log[g].n) => log[l].at >= log[j].at + 2000

C21_AfterThrottle ==
    \A j, l \in 1..Len(log) :
        (j < l /\ ThrottleError(log[j]) /\ log[l].ev = "launch") =>
            log[l].at >= log[j].until

\* A task entered the rate-locked block, a throttle error of another task
\* then set throttle_until, and the task started its navigation before that
\* time.
C21_InsideRateLock ==
    \E g, j, l \in 1..Len(log) :
        /\ g < j
        /\ j < l
        /\ log[g].ev = "gate_enter"
        /\ ThrottleError(log[j])
        /\ log[l].ev = "launch"
        /\ log[l].n = log[g].n
        /\ log[l].at < log[j].until

\* A run_one task ends in the except branch.
FailureOf(p) ==
    /\ p \in DOMAIN tasks
    /\ tasks[p].pc = "navigating"
    /\ tasks'[p].pc \in {"done", "raised"}
Blocked(e) == \E k \in 1..Len(e.exc.message) : e.exc.message[k] = "AUTH_BLOCKED"
SameRecords(st, file) ==
    /\ file.exists
    /\ file.whole
    /\ {file.recs[i] : i \in 1..Len(file.recs)} = {st[i] : i \in 1..Len(st)}
    /\ Len(file.recs) = Len(st)

\* One failure: one line goes to the error log; unless it is AUTH_BLOCKED the
\* record gets attempts + 1, the message as last_error and complete = false,
\* keeps its data, the other records and tasks are as they were, the state
\* file holds the state, and process_details goes on.
FailureStep ==
    \A p \in DOMAIN tasks :
        FailureOf(p) =>
            /\ Len(log') = Len(log) + 1
            /\ log'[Len(log')].ev = "detail_error"
            /\ log'[Len(log')].n = p
            /\ ~Blocked(log'[Len(log')]) =>
                   /\ state'[p].payment_id = p
                   /\ state'[p].attempts = state[p].attempts + 1
                   /\ state'[p].last_error = log'[Len(log')].exc.message
                   /\ state'[p].complete = FALSE
                   /\ state'[p].data = state[p].data
                   /\ \A q \in DOMAIN tasks \ {p} :
                          state'[q] = state[q] /\ tasks'[q] = tasks[q]
                   /\ SameRecords(state', fs'[StatePath])
                   /\ pc' = "details"
                   /\ tasks'[p].pc = "done"

SomeFailure == \E i \in 1..Len(log) : log[i].ev = "detail_error" /\ ~Blocked(log[i])
SomeBlocked == \E i \in 1..Len(log) : log[i].ev = "detail_error" /\ Blocked(log[i])
AllProcessed ==
    /\ pc = "details_returned"
    /\ \A p \in DOMAIN tasks :
           /\ tasks[p].pc = "done"
           /\ state[p].attempts = PendingRecord(p).attempts + 1

\* C22: a failure of one record that is not AUTH_BLOCKED does not stop
\* process_details: the record gets attempts + 1, last_error = the message
\* and complete = false and keeps its data, the state is saved, one line is
\* appended to the error log, and every other pending id is still processed
\* (unless one of them raises AUTH_BLOCKED).
C22_Tolerated ==
    /\ [][FailureStep]_vars
    /\ SomeFailure ~> (AllProcessed \/ SomeBlocked)

\* A record that held the detail of an earlier attempt failed with an error
\* other than AUTH_BLOCKED, and process_details has returned with every
\* record tried.
C22_Witness ==
    /\ AllProcessed
    /\ ~SomeBlocked
    /\ \E i \in 1..Len(log) :
           log[i].ev = "detail_error" /\ log[i].n = 1 /\ log[i].exc = Status500
    /\ state[1].data # NoData
    /\ state[1].attempts = 2

\* The launches of the log, in order, and the multiplier of a launch in
\* thousandths (max(1, multiplier)).
Launches == { j \in 1..Len(log) : log[j].ev = "launch" }
PerMille(e) == Max(MultScale, e.multiplier) \div 1000
BaseInterval == args.detail_start_min_interval_ms

\* Any two starts are separated by at least the interval drawn at the
\* earlier one.
Serialized ==
    \A j, l \in Launches : j < l => log[l].at >= log[j].at + log[j].interval

\* The claim as stated for C24: starts are serialized, and every interval lies
\* within [0.8, 1.3] x detail_start_min_interval_ms x max(1, multiplier) and is
\* never below 100 ms.
C24_Original ==
    pc \in {"details", "details_returned", "details_raised"} =>
        /\ Serialized
        /\ \A j \in Launches :
              /\ log[j].interval * 10000 >= 8 * BaseInterval * PerMille(log[j])
              /\ log[j].interval * 10000 <= 13 * BaseInterval * PerMille(log[j])
              /\ log[j].interval >= 100

\* C24: order-detail navigation starts are serialized across workers: any two
\* starts are separated by at least the interval drawn at the earlier one; the
\* interval is never below 100 ms, and it is max(100, floor(j x max(1,
\* multiplier))) for a whole j between floor(0.8 x base) and floor(1.3 x base).
C24_Spacing ==
    pc \in {"details", "details_returned", "details_raised"} =>
        /\ Serialized
        /\ \A j \in Launches :
              /\ log[j].interval >= 100
              /\ \E jit \in ((8 * BaseInterval) \div 10)..((13 * BaseInterval) \div 10) :
                    IF log[j].interval > 100
                    THEN /\ log[j].interval * 1000 <= jit * PerMille(log[j])
                         /\ jit * PerMille(log[j]) < (log[j].interval + 1) * 1000
                    ELSE jit * PerMille(log[j]) < 101000

\* Two workers, a base of 50 ms: the second start waits for the 100 ms floor
\* of the first, which is above 1.3 x 50.
C24_Witness ==
    /\ BaseInterval = SmallInterval
    /\ \E j, l \in Launches :
          /\ j < l
          /\ log[j].n # log[l].n
          /\ log[j].interval = 100
          /\ log[l].at = log[j].at + 100

\* A start under a raised multiplier, spaced by the truncated product.
C24_WitnessRaised ==
    \E j \in Launches :
        /\ log[j].multiplier > MultScale
        /\ log[j].interval > (13 * BaseInterval) \div 10

\* The step logs the outcome of one extraction.
Succeeded == Len(log') = Len(log) + 1 /\ log'[Len(log')].ev = "detail_done"
FailedPlain ==
    /\ Len(log') = Len(log) + 1
    /\ log'[Len(log')].ev = "detail_error"
    /\ ~ThrottleError(log'[Len(log')])
MultiplierInRange ==
    pc \in {"details", "details_returned", "details_raised"} =>
        /\ throttle_multiplier >= MultScale
        /\ throttle_multiplier <= 8 * MultScale

\* The claim as stated for C25: a success makes the multiplier exactly
\* 0.9 x m, or 1.0 when that is lower.
OriginalRelaxStep ==
    /\ Succeeded =>
          throttle_multiplier' * 10 =
              (IF 9 * throttle_multiplier < 10 * MultScale
               THEN 10 * MultScale ELSE 9 * throttle_multiplier)
    /\ FailedPlain => throttle_multiplier' = throttle_multiplier
C25_Original == [][OriginalRelaxStep]_vars /\ []MultiplierInRange

\* A success takes the multiplier to 0.9 x m rounded to three decimals (a
\* whole number of thousandths within 0.0005 of it), but not below 1.0, and
\* leaves 1.0 as it is; an error that is no throttle error leaves it as it is.
RelaxStep ==
    /\ Succeeded =>
          IF throttle_multiplier = MultScale
          THEN throttle_multiplier' = MultScale
          ELSE \/ /\ throttle_multiplier' = MultScale
                  /\ 9 * throttle_multiplier <= 10 * MultScale + 5000
               \/ /\ throttle_multiplier' > MultScale
                  /\ throttle_multiplier' % 1000 = 0
                  /\ 10 * throttle_multiplier' - 9 * throttle_multiplier <= 5000
                  /\ 9 * throttle_multiplier - 10 * throttle_multiplier' <= 5000
    /\ FailedPlain => throttle_multiplier' = throttle_multiplier

\* C25: after each successful detail extraction the throttle multiplier
\* becomes round(0.9 x m, 3) but never below 1.0, and stays 1.0 when it is
\* 1.0; errors that are not throttle-classified leave it unchanged; the
\* multiplier is within [1.0, 8.0] in every reachable state.
C25_Relax == [][RelaxStep]_vars /\ []MultiplierInRange

\* Two throttle errors took the multiplier to 2.7225, and a success has
\* relaxed it to 2.45 (0.9 x 2.7225 = 2.45025).
C25_Witness ==
    /\ throttle_events = 2
    /\ throttle_multiplier = 2450000
    /\ Len(log) > 0
    /\ log[Len(log)].ev = "detail_done"

\* The detail pages that are open.
OpenPages == { p \in DOMAIN tasks : tasks[p].opened > tasks[p].closed }

\* A page is opened once by the task that holds the semaphore and closed once
\* when the task leaves run_one; no more than max(1, workers) are open.
PagesInv ==
    pc \in {"details", "details_returned", "details_raised"} =>
        /\ \A p \in DOMAIN tasks :
              /\ tasks[p].closed <= tasks[p].opened
              /\ tasks[p].opened <= 1
              /\ tasks[p].pc = "pending" => tasks[p].opened = 0
              /\ p \in Holding => (tasks[p].opened = 1 /\ tasks[p].closed = 0)
              /\ tasks[p].pc \in {"done", "raised"} =>
                    (tasks[p].opened = 1 /\ tasks[p].closed = 1)
        /\ Cardinality(OpenPages) <= (IF args.workers > 1 THEN args.workers ELSE 1)
        /\ pc = "details_returned" => OpenPages = {}

\* C28: every page opened by a detail worker is closed exactly once, whether
\* the extraction succeeds, fails or raises AUTH_BLOCKED, and at no time are
\* more than max(1, workers) detail pages open.  A page that is open is
\* closed later, unless another task's AUTH_BLOCKED ends process_details
\* first.
C28_Pages ==
    /\ []PagesInv
    /\ \A p \in 1..MaxDetails :
          (p \in OpenPages) ~> (p \notin OpenPages \/ pc = "details_raised")

\* process_details has returned after one extraction failed and one
\* succeeded, both pages closed; two pages were open at a time.
C28_Witness ==
    /\ pc = "details_returned"
    /\ args.workers = MaxWorkers
    /\ \A p \in DOMAIN tasks : tasks[p].opened = 1 /\ tasks[p].closed = 1
    /\ \E j, k, l \in 1..Len(log) :
          /\ log[j].ev = "detail_error"
          /\ log[k].ev = "detail_done"
          /\ log[l].ev = "launch"
          /\ l < j
          /\ l < k
          /\ \E l2 \in (l + 1)..Len(log) : log[l2].ev = "launch" /\ l2 < j /\ l2 < k

\* AUTH_BLOCKED raised out of run_one: the page of the raising task is closed.
C28_WitnessBlocked ==
    /\ pc = "details_raised"
    /\ \E p \in DOMAIN tasks : tasks[p].pc = "raised" /\ tasks[p].closed = 1

-----------------------------------------------------------------------------
(* Properties of the DOM helpers (SpecDom).                                 *)

LastWidget == dom.paginations[Len(dom.paginations)]
NextUsable(w) == w.next = "enabled" /\ w.anchor = "visible"

\* C13: click_next_order_details_page clicks at most one element per call,
\* and only the Next anchor of the last .pagination widget; when there is no
\* widget, or the last one's li.next is missing or disabled or its anchor is
\* not visible, it clicks nothing and returns false, whatever the earlier
\* widgets hold; it returns true only when it clicked.
C13_ClickLast ==
    pc = "next_clicked" =>
        /\ Len(clicks) <= 1
        /\ \A i \in 1..Len(clicks) :
               clicks[i] = Len(dom.paginations) /\ NextUsable(LastWidget)
        /\ (IF dom.paginations = <<>> THEN TRUE ELSE ~NextUsable(LastWidget))
               => (dom_result.value = FALSE /\ clicks = <<>>)
        /\ dom_result.value = TRUE => Len(clicks) = 1

\* Two widgets, the first with a usable Next and the last with a disabled
\* one: nothing is clicked.
C13_Witness ==
    /\ pc = "next_clicked"
    /\ Len(dom.paginations) = 2
    /\ NextUsable(dom.paginations[1])
    /\ LastWidget.next = "disabled"
    /\ dom_result.value = FALSE
    /\ clicks = <<>>

LastSpan == dom.summaries[Len(dom.summaries)]

\* C14: get_pagination_summary returns the start, end and total of the last
\* .pagination-summary element, never those of an earlier one; it returns
\* the empty result when there is no such element or the last one's text
\* does not match; and the crawl takes the summary for the last page's
\* exactly when its end is at least its total.
C14_LastSummary ==
    pc = "summary_read" =>
        IF dom.summaries = <<>> THEN dom_result.value = EmptySummary
        ELSE IF ~summary_match(LastSpan) THEN dom_result.value = EmptySummary
        ELSE IF dom_result.raised # "no" THEN dom_result.value = EmptySummary
        ELSE /\ dom_result.value = [has |-> TRUE, start |-> LastSpan.nums[1],
                                    end |-> LastSpan.nums[2], total |-> LastSpan.nums[3]]
             /\ is_last_page(dom_result.value) <=> LastSpan.nums[2] >= LastSpan.nums[3]

\* Two summaries, the earlier one of a first page and the last one of a last
\* page: the last one is returned, and it is recognised as the last page.
C14_Witness ==
    /\ pc = "summary_read"
    /\ dom.summaries = <<ShowingText(1, 2, 4), ShowingText(3, 4, 4)>>
    /\ dom_result.value = [has |-> TRUE, start |-> 3, end |-> 4, total |-> 4]
    /\ is_last_page(dom_result.value)

IsSurrogate(id) == Len(id) = 2 /\ id[1] = OrderPrefix

\* C15: the payment id of an order block is the id of its reopen-check form
\* when the form is there (with an id); otherwise the id of its "ID: x"
\* label; otherwise an "order-" surrogate; and it is never empty.
C15_FormFirst ==
    pc = "blocks_extracted" =>
        \A i \in 1..Len(dom.blocks) :
            LET order == dom.blocks[i]
                id == dom_result.value[i]
            IN  /\ id # <<>>
                /\ IF order.form.present /\ order.form.id # <<>>
                   THEN id = order.form.id
                   ELSE IF first_meta_id(order.meta_ids) # <<>>
                        THEN id = first_meta_id(order.meta_ids)
                        ELSE IsSurrogate(id)

\* A block with an "ID: 5" label and a reopen-check form of id 6 gets the
\* label's id.
C15_LabelWins ==
    /\ pc = "blocks_extracted"
    /\ \E i \in 1..Len(dom.blocks) :
           /\ dom.blocks[i].form = ReopenForm(<<6>>)
           /\ first_meta_id(dom.blocks[i].meta_ids) = <<5>>
           /\ dom_result.value[i] = <<5>>

\* The id a block shows by its label or its form, if any.
ShownId(order) ==
    IF first_meta_id(order.meta_ids) # <<>> THEN first_meta_id(order.meta_ids)
    ELSE IF order.form.present THEN order.form.id ELSE <<>>

\* Two blocks that may be the same check shown twice: they show the same id,
\* or nothing tells them apart.
SameCheck(a, b) == a = b \/ (ShownId(a) # <<>> /\ ShownId(a) = ShownId(b))

\* C38: the order blocks of a page that are not the same check get different
\* payment ids, surrogate ids included.
C38_DistinctIds ==
    pc = "blocks_extracted" =>
        \A i, j \in 1..Len(dom.blocks) :
            (i # j /\ ~SameCheck(dom.blocks[i], dom.blocks[j]))
                => dom_result.value[i] # dom_result.value[j]

\* A block with no label, no form and no order number comes first and gets
\* order-1 by its position; the next block is order number 1, with no label
\* and no form, and gets order-1 by its number.
C38_SurrogateClash ==
    /\ pc = "blocks_extracted"
    /\ dom.blocks = <<OrderElement(<<>>, NoForm, 0), OrderElement(<<>>, NoForm, 1)>>
    /\ dom_result.value = << <<OrderPrefix, 1>>, <<OrderPrefix, 1>> >>

=============================================================================
